---- MODULE Spec2Model ----
(***************************************************************************)
(* CANopen (CiA-301) node of the digital twin: the listener of            *)
(* src/src/cia301.rs (Node::start_socket and the handlers it dispatches   *)
(* to) over the object dictionary, together with the stand-alone NMT and  *)
(* SDO functions of src/src/nmt.rs and src/src/sdo.rs.                    *)
(*                                                                         *)
(* Numbers are written in decimal; the hexadecimal value of the source is *)
(* given in the comment beside each.  A byte is a number in 0..255, a     *)
(* frame a record [id, data] with data a sequence of bytes (1-indexed     *)
(* here, 0-indexed in the source).                                        *)
(*                                                                         *)
(* A DataValue is a record [tag, value].  The value of an Integer8/16/32  *)
(* and of an Unsigned8/16 is the number itself.  Integers of TLC are    *)
(* 32-bit signed, so an Unsigned32 is kept as the pair <<hi, lo>> of      *)
(* its 16-bit halves (its value is hi * 65536 + lo).  Boolean, Real32 and *)
(* Unknown are never read or written by the frame handlers; their value   *)
(* is kept as the number 0.                                               *)
(***************************************************************************)
EXTENDS Integers, Sequences, FiniteSets, TLC

VARIABLES
    od,         \* Node.eds_data.od: the sequence of Var objects
    nmt_state,  \* Node.nmt_state
    motor_controller, \* Node.motor_controller
    listener,   \* the task running Node::start_socket: "running" (at
                \* socket.recv()), "sending" (suspended in a socket.send of the
                \* handler), "updating" (the handler has returned, at
                \* update_controller) or "panicked"
    rx,         \* the frame socket.recv() returned last
    tx,         \* the frames socket.send() was given while rx was handled
    received,   \* the number of frames received so far
    controller, \* the MotorController of the task running MotorController::run
    ticks,      \* the number of steps update_state has taken on its own
                \* (SpecSt), or of Messages written to the controller after
                \* those that wait in controller_rx at the start
    channel,    \* the Messages sent on controller_tx and not yet taken from node_rx
    controller_rx, \* the Messages sent on node_tx and not yet taken from
                \* controller_rx
    iteration,  \* of the iteration of MotorController::run begun last: what
                \* try_recv returned, and the drive state and the three flags
                \* of the statusword it began with; <<>> before the first
    eds,        \* the sections of the EDS file eds::parse_eds reads
    turn        \* while the handler is suspended in a socket.send: what the
                \* suspended task goes on to do, and the Node and the last frame
                \* as they were when the frame in hand was received; <<>> else

vars ==
    <<od, nmt_state, motor_controller, listener, rx, tx, received, controller, ticks,
      channel, controller_rx, iteration, eds, turn>>

----------------------------------------------------------------------------
(* Bounds of the model.                                                    *)

\* longest NMT payload received (a well-formed one has 2 bytes)
MaxNmtLen == 3

\* number of frames the listener receives in a run
MaxFrames == 2

\* milliseconds after which the elapsed time of the controller's timer is no
\* longer counted (every duration the controller compares it with is shorter)
MaxTimer == 600

\* the microseconds by which a reading of the clock that falls between two
\* whole milliseconds lies past the earlier one
Fraction == 300

\* number of Messages written to the controller after those that wait in
\* controller_rx when it is started
MaxWrites == 1

\* number of Messages the controller has sent that wait in node_rx while the
\* bus is busy: the node takes them out after every frame it has handled
MaxWaiting == 1

\* capacity of the two channels (main.rs:58-59)
ChannelCapacity == 100

----------------------------------------------------------------------------
(* Bytes and little-endian integers.                                       *)

Byte == 0..255

\* u8 as i8 (cia301.rs:272, sdo.rs:142)
AsI8(b) == IF b >= 128 THEN b - 256 ELSE b

\* i8 as u8 (cia301.rs:249, sdo.rs:95)
AsU8(v) == v % 256

\* u16::from_le_bytes
U16FromLe(b0, b1) == b0 + 256 * b1

\* i16::from_le_bytes
I16FromLe(b0, b1) == IF b1 >= 128 THEN b0 + 256 * (b1 - 256) ELSE b0 + 256 * b1

\* i32::from_le_bytes
I32FromLe(b0, b1, b2, b3) ==
    IF b3 >= 128
    THEN b0 + 256 * b1 + 65536 * b2 + 16777216 * (b3 - 256)
    ELSE b0 + 256 * b1 + 65536 * b2 + 16777216 * b3

\* u32::from_le_bytes, as the pair of 16-bit halves <<hi, lo>>
U32FromLe(b0, b1, b2, b3) == <<b2 + 256 * b3, b0 + 256 * b1>>

\* u16::to_le_bytes and i16::to_le_bytes (two's complement)
Le16(v) == LET u == v % 65536 IN <<u % 256, u \div 256>>

\* i32::to_le_bytes (two's complement; \div rounds towards minus infinity)
I32ToLe(v) ==
    LET lo == v % 65536
        hi == (v \div 65536) % 65536
    IN  <<lo % 256, lo \div 256, hi % 256, hi \div 256>>

\* u32::to_le_bytes of <<hi, lo>>
U32ToLe(v) == <<v[2] % 256, v[2] \div 256, v[1] % 256, v[1] \div 256>>

----------------------------------------------------------------------------
(* DataValue (the enum of eds.rs) and the Var objects of the OD.           *)

IntegerTags ==
    {"Integer8", "Integer16", "Integer32", "Unsigned8", "Unsigned16", "Unsigned32"}

DataTags == IntegerTags \cup {"Unknown", "Boolean", "Real32"}

DataValue(t, v) == [tag |-> t, value |-> v]

Var(i, s, t, v) == [index |-> i, sub_index |-> s, value |-> DataValue(t, v)]

\* The Var objects parse_eds delivers for the drive's EDS, in section order.
\* (The EDS file itself, CPB3-1-2.eds, is not part of the sources; these are
\* the CiA-301 / CiA-402 objects the handlers and the controller refer to.)
SeedOd == <<
    Var(5632, 0, "Unsigned8", 2),               \* 0x1600 sub 0: RPDO1 mapping count
    Var(5632, 1, "Unsigned32", <<24640, 16>>),  \* 0x1600 sub 1 = 0x60400010
    Var(5632, 2, "Unsigned32", <<24698, 32>>),  \* 0x1600 sub 2 = 0x607A0020
    Var(5633, 0, "Unsigned8", 2),               \* 0x1601 sub 0: RPDO2 mapping count
    Var(5633, 1, "Unsigned32", <<24672, 8>>),   \* 0x1601 sub 1 = 0x60600008
    Var(5633, 2, "Unsigned32", <<24689, 16>>),  \* 0x1601 sub 2 = 0x60710010
    Var(5634, 0, "Unsigned8", 2),               \* 0x1602 sub 0: RPDO3 mapping count
    Var(5634, 1, "Unsigned32", <<24770, 264>>), \* 0x1602 sub 1 = 0x60C20108
    Var(5634, 2, "Unsigned32", <<24705, 32>>),  \* 0x1602 sub 2 = 0x60810020
    Var(5635, 0, "Unsigned8", 2),               \* 0x1603 sub 0: RPDO4 mapping count
    Var(5635, 1, "Unsigned32", <<24698, 32>>),  \* 0x1603 sub 1 = 0x607A0020
    Var(5635, 2, "Unsigned32", <<24640, 16>>),  \* 0x1603 sub 2 = 0x60400010
    Var(6144, 1, "Unsigned32", <<0, 385>>),     \* 0x1800 sub 1 = 0x00000181
    Var(6144, 2, "Unsigned8", 255),             \* 0x1800 sub 2: transmission type
    Var(6145, 1, "Unsigned32", <<0, 641>>),     \* 0x1801 sub 1 = 0x00000281
    Var(6145, 2, "Unsigned8", 1),               \* 0x1801 sub 2: transmission type
    Var(6656, 0, "Unsigned8", 2),               \* 0x1A00 sub 0: TPDO1 mapping count
    Var(6656, 1, "Unsigned32", <<24641, 16>>),  \* 0x1A00 sub 1 = 0x60410010
    Var(6656, 2, "Unsigned32", <<24676, 32>>),  \* 0x1A00 sub 2 = 0x60640020
    Var(6657, 0, "Unsigned8", 1),               \* 0x1A01 sub 0: TPDO2 mapping count
    Var(6657, 1, "Unsigned32", <<24673, 8>>),   \* 0x1A01 sub 1 = 0x60610008
    Var(8192, 0, "Boolean", 0),                 \* 0x2000: a Boolean object
    Var(8193, 0, "Real32", 0),                  \* 0x2001: a Real32 object
    Var(8194, 0, "Unknown", 0),                 \* 0x2002: a data type not modelled
    Var(24640, 0, "Unsigned16", 0),             \* 0x6040 controlword
    Var(24641, 0, "Unsigned16", 567),           \* 0x6041 statusword = 0x0237
    Var(24672, 0, "Integer8", 0),               \* 0x6060 modes of operation
    Var(24673, 0, "Integer8", 0),               \* 0x6061 modes of operation display
    Var(24676, 0, "Integer32", 0),              \* 0x6064 position actual value
    Var(24689, 0, "Integer16", 0),              \* 0x6071 target torque
    Var(24698, 0, "Integer32", 0),              \* 0x607A target position
    Var(24705, 0, "Unsigned32", <<0, 0>>),      \* 0x6081 profile velocity
    Var(24770, 1, "Unsigned8", 0)               \* 0x60C2 sub 1 interpolation time
>>

----------------------------------------------------------------------------
(* The node (cia301.rs).                                                   *)

\* Node.node_id of the node under study (from the configuration file)
NodeId == 1

\* the id of another axis on the same bus
OtherNodeId == 2

NmtStates == {"Initializing", "Stopped", "Operational", "PreOperational"}

Frame(i, d) == [id |-> i, data |-> d]

\* Node.motor_controller as Node::initialize builds it (cia301.rs:94-98)
NodeMotorController ==
    [mode_of_operation |-> 0, command |-> "None", state |-> "NotReadyToSwitchOn"]

\* The fields of a Node the handlers read and write (eds_data.od, nmt_state,
\* motor_controller; node_id is NodeId), with the frames given to socket.send
\* so far and whether the handler has panicked.  overflow_checks is the build
\* profile: integer overflow panics in the debug profile (TRUE) and wraps in
\* the release profile (FALSE).  at_send keeps, for each frame given to
\* socket.send, the Node as it is while the task is suspended in that send.
NodeOf(o, n, mc, checks) ==
    [od |-> o, nmt_state |-> n, motor_controller |-> mc, sent |-> <<>>,
     panicked |-> FALSE, overflow_checks |-> checks, at_send |-> <<>>]

\* A panic unwinds out of the handler: what was written and sent before it
\* stays, nothing more is done.
Panic(self) == [self EXCEPT !.panicked = TRUE]

\* socket.send(frame).await: the frame goes out on the bus; the task may be
\* suspended there, with the Node as it is now
Send(self, frame) ==
    [self EXCEPT !.sent = Append(@, frame),
                 !.at_send = Append(@, [od |-> self.od, nmt_state |-> self.nmt_state,
                                        motor_controller |-> self.motor_controller])]

\* Option<T>
None == <<>>
Some(v) == <<v>>

RECURSIVE BitOr(_, _)
\* a | b
BitOr(a, b) ==
    IF a = 0 THEN b
    ELSE IF b = 0 THEN a
    ELSE (IF a % 2 = 1 \/ b % 2 = 1 THEN 1 ELSE 0) + 2 * BitOr(a \div 2, b \div 2)

\* send_new_nmt_state with the node id left out of the COB-ID
send_new_nmt_state_no_id(self) ==
    Send(self, Frame(1792, <<CASE self.nmt_state = "Initializing" -> 0
                               [] self.nmt_state = "Stopped" -> 4
                               [] self.nmt_state = "Operational" -> 5
                               [] self.nmt_state = "PreOperational" -> 127>>))

\* Node::send_new_nmt_state
send_new_nmt_state(self) ==
    LET cob == 1792     \* 0x700
        byte == CASE self.nmt_state = "Initializing" -> 0
                  [] self.nmt_state = "Stopped" -> 4
                  [] self.nmt_state = "Operational" -> 5
                  [] self.nmt_state = "PreOperational" -> 127
    IN  Send(self, Frame(BitOr(cob, NodeId), <<byte>>))

\* the requested-state bytes with an NmtCommand: 0x01, 0x02, 0x80, 0x81, 0x82
NmtCommandBytes == {1, 2, 128, 129, 130}

\* the match of NmtCommand to NmtState (cia301.rs:166-172, nmt.rs:39-45)
NmtStateFor(requested_state) ==
    CASE requested_state = 1 -> "Operational"
      [] requested_state = 2 -> "Stopped"
      [] requested_state = 128 -> "PreOperational"
      [] requested_state = 129 -> "Initializing"
      [] requested_state = 130 -> "Initializing"

\* parse_nmt_command that re-seeds the OD on Reset and Reset-Communication
parse_nmt_command_reseeding(self, data) ==
    IF Len(data) < 2 \/ data[1] \notin NmtCommandBytes THEN Panic(self)
    ELSE IF data[2] # NodeId THEN self
    ELSE send_new_nmt_state(
             [self EXCEPT !.nmt_state = NmtStateFor(data[1]),
                          !.od = IF data[1] \in {129, 130} THEN SeedOd ELSE @,
                          !.motor_controller =
                              IF data[1] \in {129, 130} THEN NodeMotorController
                              ELSE @])

\* parse_nmt_command without the test of addressed_node
parse_nmt_command_unaddressed(self, data) ==
    IF Len(data) < 2 \/ data[1] \notin NmtCommandBytes THEN Panic(self)
    ELSE send_new_nmt_state([self EXCEPT !.nmt_state = NmtStateFor(data[1])])

\* Node::parse_nmt_command: a wrong length is only logged, data[0] and data[1]
\* panic when out of bounds, and so does an unexpected requested state.
parse_nmt_command(self, data) ==
    IF Len(data) < 2 THEN Panic(self)
    ELSE LET requested_state == data[1]
             addressed_node == data[2]
         IN  IF requested_state \notin NmtCommandBytes THEN Panic(self)
             ELSE IF addressed_node = NodeId
                  THEN send_new_nmt_state(
                           [self EXCEPT !.nmt_state = NmtStateFor(requested_state)])
                  ELSE self

Max(S) == CHOOSE x \in S : \A y \in S : y <= x
Min(S) == CHOOSE x \in S : \A y \in S : x <= y

\* ClientCommand::client_command, on the ccs bits of the request's first byte
client_command(value) ==
    CASE value = 0 -> "SegmentDownload"
      [] value = 1 -> "InitiateDownload"
      [] value = 2 -> "InitiateUpload"
      [] value = 3 -> "SegmentUpload"
      [] value = 4 -> "AbortTransfer"
      [] OTHER -> "Unknown"

\* ServerCommand as u8
ServerCommandCode(scs) ==
    CASE scs = "InitiateUploadResponse" -> 2
      [] scs = "InitiateDownloadResponse" -> 3
      [] scs = "Unknown" -> 5

\* The first byte of a response: (scs & 0b111) << 5 | (n & 0b11) << 2 | e << 1 | s
SdoHeader(scs, n, e, s) == (ServerCommandCode(scs) % 8) * 32 + (n % 4) * 4 + e * 2 + s

\* u16::from_le_bytes([input_data[1], input_data[2]]) and input_data[3]
get_index(data) == U16FromLe(data[2], data[3])
get_sub_index(data) == data[4]

\* n taken as the number of bytes that carry data
UploadN_used(v) ==
    CASE v.tag \in {"Integer8", "Unsigned8"} -> 1
      [] v.tag \in {"Integer16", "Unsigned16"} -> 2
      [] OTHER -> 0

\* The match on content.value of an upload (cia301.rs:246-266, sdo.rs:92-112):
\* n and the four data bytes of the response.
UploadN(v) ==
    CASE v.tag \in {"Integer8", "Unsigned8"} -> 3
      [] v.tag \in {"Integer16", "Unsigned16"} -> 2
      [] OTHER -> 0

\* the 16-bit values written most significant byte first
UploadBytes_be(v) ==
    CASE v.tag = "Integer8" -> <<AsU8(v.value), 0, 0, 0>>
      [] v.tag = "Unsigned8" -> <<v.value, 0, 0, 0>>
      [] v.tag \in {"Integer16", "Unsigned16"} ->
           <<Le16(v.value)[2], Le16(v.value)[1], 0, 0>>
      [] v.tag = "Integer32" -> I32ToLe(v.value)
      [] v.tag = "Unsigned32" -> U32ToLe(v.value)
      [] OTHER -> <<0, 0, 0, 0>>

UploadBytes(v) ==
    CASE v.tag = "Integer8" -> <<AsU8(v.value), 0, 0, 0>>
      [] v.tag = "Unsigned8" -> <<v.value, 0, 0, 0>>
      [] v.tag \in {"Integer16", "Unsigned16"} -> Le16(v.value) \o <<0, 0>>
      [] v.tag = "Integer32" -> I32ToLe(v.value)
      [] v.tag = "Unsigned32" -> U32ToLe(v.value)
      [] OTHER -> <<0, 0, 0, 0>>

\* The bytes of the request a download reads for a value of this tag; reading
\* input_data[k] beyond the end of the request panics.
DownloadNeeds(v) ==
    CASE v.tag \in {"Integer8", "Unsigned8"} -> 5
      [] v.tag \in {"Integer16", "Unsigned16"} -> 6
      [] v.tag \in {"Integer32", "Unsigned32"} -> 8
      [] OTHER -> 0

\* a download that reads its value one byte early, from input_data[3..]
DownloadValue_offset(v, d) ==
    CASE v.tag = "Integer8" -> DataValue("Integer8", AsI8(d[4]))
      [] v.tag = "Integer16" -> DataValue("Integer16", I16FromLe(d[4], d[5]))
      [] v.tag = "Integer32" -> DataValue("Integer32", I32FromLe(d[4], d[5], d[6], d[7]))
      [] v.tag = "Unsigned8" -> DataValue("Unsigned8", d[4])
      [] v.tag = "Unsigned16" -> DataValue("Unsigned16", U16FromLe(d[4], d[5]))
      [] v.tag = "Unsigned32" -> DataValue("Unsigned32", U32FromLe(d[4], d[5], d[6], d[7]))
      [] OTHER -> v

\* a download that stores the byte of an Integer8 entry as an Unsigned8
DownloadValue_retag(v, d) ==
    CASE v.tag = "Integer8" -> DataValue("Unsigned8", d[5])
      [] v.tag = "Integer16" -> DataValue("Integer16", I16FromLe(d[5], d[6]))
      [] v.tag = "Integer32" -> DataValue("Integer32", I32FromLe(d[5], d[6], d[7], d[8]))
      [] v.tag = "Unsigned8" -> DataValue("Unsigned8", d[5])
      [] v.tag = "Unsigned16" -> DataValue("Unsigned16", U16FromLe(d[5], d[6]))
      [] v.tag = "Unsigned32" -> DataValue("Unsigned32", U32FromLe(d[5], d[6], d[7], d[8]))
      [] OTHER -> v

\* The match on content.value of a download (cia301.rs:271-279, sdo.rs:141-149):
\* the new DataValue, read from input_data[4..] at the width of the stored tag.
DownloadValue(v, d) ==
    CASE v.tag = "Integer8" -> DataValue("Integer8", AsI8(d[5]))
      [] v.tag = "Integer16" -> DataValue("Integer16", I16FromLe(d[5], d[6]))
      [] v.tag = "Integer32" -> DataValue("Integer32", I32FromLe(d[5], d[6], d[7], d[8]))
      [] v.tag = "Unsigned8" -> DataValue("Unsigned8", d[5])
      [] v.tag = "Unsigned16" -> DataValue("Unsigned16", U16FromLe(d[5], d[6]))
      [] v.tag = "Unsigned32" -> DataValue("Unsigned32", U32FromLe(d[5], d[6], d[7], d[8]))
      [] OTHER -> v

\* The body of Node::sdo_response for the object at position i, whose index and
\* sub-index match the request: the upload or download, then the response frame
\* (built and sent for every client command).
SdoObject(self, command, input_data, i) ==
    LET content == self.od[i]
        cob == 1408     \* 0x580
        reply(node, scs, n, e, s, bytes) ==
            Send(node, Frame(BitOr(cob, NodeId),
                 <<SdoHeader(scs, n, e, s)>>
                 \o Le16(content.index) \o <<content.sub_index>> \o bytes))
    IN  CASE command = "InitiateUpload" ->
               reply(self, "InitiateUploadResponse", UploadN(content.value), 1, 1,
                     UploadBytes(content.value))
          [] command = "InitiateDownload" ->
               IF Len(input_data) < DownloadNeeds(content.value)
               THEN Panic(self)
               ELSE reply([self EXCEPT !.od[i].value =
                                           DownloadValue(content.value, input_data)],
                          "InitiateDownloadResponse", 0, 0, 0, <<0, 0, 0, 0>>)
          [] OTHER -> reply(self, "Unknown", 0, 0, 0, <<0, 0, 0, 0>>)

\* The loop of Node::sdo_response over eds_data.od: the objects at the
\* positions `at` (those whose index and sub-index match), in od order
RECURSIVE SdoObjects(_, _, _, _)
SdoObjects(self, command, input_data, at) ==
    IF self.panicked \/ at = {} THEN self
    ELSE LET i == Min(at)
         IN  SdoObjects(SdoObject(self, command, input_data, i),
                        command, input_data, at \ {i})

\* Node::sdo_response: input_data[1..3] panic when out of bounds
sdo_response(self, command, input_data) ==
    IF Len(input_data) < 4 THEN Panic(self)
    ELSE LET input_index == get_index(input_data)
             input_sub_index == get_sub_index(input_data)
         IN  SdoObjects(self, command, input_data,
                        {pos \in 1..Len(self.od) :
                            LET c == self.od[pos]
                            IN  /\ c.index = input_index
                                /\ c.sub_index = input_sub_index})

\* Node::parse_sdo_client_request: more than 8 bytes is only logged, data[0]
\* panics on an empty payload; ccs = (data[0] >> 5) & 0b111
parse_sdo_client_request(self, data) ==
    IF Len(data) < 1 THEN Panic(self)
    ELSE sdo_response(self, client_command((data[1] \div 32) % 8), data)

----------------------------------------------------------------------------
(* PDO mapping records: (index[31:16], sub-index[15:8], bit length[7:0]) of *)
(* an Unsigned32 <<hi, lo>>.                                               *)

MapIndex(v) == v[1]             \* (value >> 16) as u16
MapSubIndex(v) == v[2] \div 256 \* ((value >> 8) & 0xFF) as u8
MapDataType(v) == v[2] % 256    \* (value & 0xFF) as u8

\* drop_front
drop_front(slice, count) ==
    IF count > Len(slice) THEN <<>> ELSE SubSeq(slice, count + 1, Len(slice))

\* the match of Node::parse_rpdo on the RPDO number
RpdoIndex(rpdo_number) ==
    CASE rpdo_number = 1 -> 5632    \* 0x1600
      [] rpdo_number = 2 -> 5633    \* 0x1601
      [] rpdo_number = 3 -> 5634    \* 0x1602
      [] rpdo_number = 4 -> 5635    \* 0x1603

\* enabled_sub_indices after the first loop of Node::parse_rpdo: the value of
\* the last Unsigned8 object at (rpdo_index, 0), 0 when there is none
EnabledSubIndices(o, rpdo_index) ==
    LET at == {pos \in 1..Len(o) :
                  LET c == o[pos]
                  IN  /\ c.index = rpdo_index
                      /\ c.sub_index = 0
                      /\ c.value.tag = "Unsigned8"}
    IN  IF at = {} THEN 0 ELSE o[Max(at)].value.value

\* rpdo_indices after the first loop: the positions holding the mapping record of
\* each sub-index (the HashMap keeps the last insert)
RpdoRecordAt(o, rpdo_index, sub) ==
    LET at == {pos \in 1..Len(o) :
                  LET c == o[pos]
                  IN  /\ c.index = rpdo_index
                      /\ c.sub_index = sub
                      /\ c.sub_index # 0
                      /\ c.value.tag = "Unsigned32"}
    IN  IF at = {} THEN 0 ELSE Max(at)

\* The match on (data_type, &content.value) of Node::parse_rpdo for the object at
\* position j; st = [node, data], data the slice not yet consumed.  Unsigned8,
\* Integer8 and Unsigned16 are read from data, Integer16, Unsigned32 and
\* Integer32 from input_data; an index beyond the slice read panics.
RpdoWrite(st, data_type, input_data, j) ==
    LET tag == st.node.od[j].value.tag
        data == st.data
        set(v, count) ==
            [node |-> [st.node EXCEPT !.od[j].value = v],
             data |-> drop_front(data, count)]
        panic == [st EXCEPT !.node = Panic(@)]
    IN  CASE data_type = 8 /\ tag = "Unsigned8" ->
               set(DataValue("Unsigned8", data[1]), 1)
          [] data_type = 8 /\ tag = "Integer8" ->
               set(DataValue("Integer8", AsI8(data[1])), 1)
          [] data_type = 16 /\ tag = "Unsigned16" ->
               IF Len(data) < 2 THEN panic
               ELSE set(DataValue("Unsigned16", U16FromLe(data[1], data[2])), 2)
          [] data_type = 16 /\ tag = "Integer16" ->
               IF Len(input_data) < 2 THEN panic
               ELSE set(DataValue("Integer16",
                                  I16FromLe(input_data[1], input_data[2])), 2)
          [] data_type = 32 /\ tag = "Unsigned32" ->
               IF Len(input_data) < 4 THEN panic
               ELSE set(DataValue("Unsigned32",
                                  U32FromLe(input_data[1], input_data[2],
                                            input_data[3], input_data[4])), 4)
          [] data_type = 32 /\ tag = "Integer32" ->
               IF Len(input_data) < 4 THEN panic
               ELSE set(DataValue("Integer32",
                                  I32FromLe(input_data[1], input_data[2],
                                            input_data[3], input_data[4])), 4)
          [] OTHER -> st

\* The inner loop of Node::parse_rpdo over eds_data.od for one mapping record:
\* the objects at the positions `at` (those at the record's index and
\* sub-index), in od order; it breaks when no data is left.
RECURSIVE RpdoObjects(_, _, _, _)
RpdoObjects(st, data_type, input_data, at) ==
    IF st.node.panicked \/ at = {} \/ st.data = <<>> THEN st
    ELSE LET j == Min(at)
         IN  RpdoObjects(RpdoWrite(st, data_type, input_data, j),
                         data_type, input_data, at \ {j})

\* The loop `for i in 0..enabled_sub_indices` of Node::parse_rpdo, from i on.
\* The mapping records were collected before the loop, from the OD as it was.
RECURSIVE RpdoRecords(_, _, _, _, _, _)
RpdoRecords(st, od0, rpdo_index, enabled_sub_indices, input_data, i) ==
    IF st.node.panicked \/ i >= enabled_sub_indices THEN st
    ELSE LET at == RpdoRecordAt(od0, rpdo_index, i + 1)
         IN  IF at = 0
             THEN RpdoRecords(st, od0, rpdo_index, enabled_sub_indices,
                              input_data, i + 1)
             ELSE LET record == od0[at].value.value
                      targets ==
                          {pos \in 1..Len(od0) :
                              LET c == od0[pos]
                              IN  /\ c.index = MapIndex(record)
                                  /\ c.sub_index = MapSubIndex(record)}
                  IN  RpdoRecords(RpdoObjects(st, MapDataType(record),
                                              input_data, targets),
                                  od0, rpdo_index, enabled_sub_indices,
                                  input_data, i + 1)

\* Node::parse_rpdo
parse_rpdo(self, rpdo_number, input_data) ==
    RpdoRecords([node |-> self, data |-> input_data], self.od,
                RpdoIndex(rpdo_number),
                EnabledSubIndices(self.od, RpdoIndex(rpdo_number)),
                input_data, 0).node

\* content.index & 0xFF00 and content.index & 0x7F
BaseIndex(index) == (index \div 256) * 256
PdoNumber(index) == index % 128

\* The value of the last object of od with this base index, PDO number, sub-index
\* and tag (the BTreeMaps of the first loop of Node::parse_sync keep the last
\* insert, and take one for the PDO numbers i in 0..8 alone); <<>> when there
\* is none.
SyncParam(o, base, k, sub, tag) ==
    LET at == {pos \in 1..Len(o) :
                  LET c == o[pos]
                  IN  /\ BaseIndex(c.index) = base
                      /\ k \in 0..7
                      /\ PdoNumber(c.index) = k
                      /\ c.sub_index = sub
                      /\ c.value.tag = tag}
    IN  IF at = {} THEN <<>> ELSE <<o[Max(at)].value.value>>

\* tpdos_enabled, tpdos_sync_type and number_of_entries for TPDO k, each <<v>> or
\* <<>>; bit 31 of the COB-ID entry is the top bit of its high half
tpdos_enabled(o, k) ==
    LET v == SyncParam(o, 6144, k, 1, "Unsigned32")     \* 0x1800, sub 1
    IN  IF v = <<>> THEN <<>> ELSE <<v[1][1] < 32768>>

tpdos_sync_type(o, k) == SyncParam(o, 6144, k, 2, "Unsigned8")  \* 0x1800, sub 2

number_of_entries(o, k) == SyncParam(o, 6656, k, 0, "Unsigned8") \* 0x1A00, sub 0

\* The test of the second loop of Node::parse_sync on TPDO k
TpdoSelected(o, k) ==
    /\ tpdos_enabled(o, k) # <<>>
    /\ tpdos_sync_type(o, k) # <<>>
    /\ number_of_entries(o, k) # <<>>
    /\ tpdos_enabled(o, k)[1]
    /\ tpdos_sync_type(o, k)[1] = 255

\* tpdo_objects[k] after the second loop: the position of the mapping record of
\* each sub-index in 1..number_of_entries, among the Unsigned32 objects at
\* index 0x1A00 | k (0 when there is none)
TpdoRecordAt(o, k, sub) ==
    LET at == {pos \in 1..Len(o) :
                  LET c == o[pos]
                  IN  /\ BaseIndex(c.index) = 6656
                      /\ c.index = 6656 + k
                      /\ c.sub_index = sub
                      /\ c.value.tag = "Unsigned32"}
    IN  IF at = {} THEN 0 ELSE Max(at)

\* 1..(*number_of_entries + 1) in u8 (line 516): with 255 entries the sum
\* overflows, when the second loop comes to an object at index 0x1A00 | k of
\* the selected TPDO k
TpdoOverflows(o, k) ==
    /\ TpdoSelected(o, k)
    /\ number_of_entries(o, k)[1] = 255
    /\ \E pos \in 1..Len(o) : o[pos].index = 6656 + k

\* the sub-indices the second loop collects a record for; where the sum
\* overflows and wraps (release profile) the range 1..0 is empty
TpdoSubIndices(o, k) ==
    IF TpdoSelected(o, k)
    THEN {sub \in 1..(IF number_of_entries(o, k)[1] = 255 THEN 0
                      ELSE number_of_entries(o, k)[1]) :
              TpdoRecordAt(o, k, sub) # 0}
    ELSE {}

\* The bytes one object adds to data_to_send for a mapping record: the object is
\* matched on the record's index alone, and appended when its tag has the
\* record's bit length.
TpdoObjectBytes(content, record) ==
    LET data_type == MapDataType(record)
        v == content.value
    IN  IF MapIndex(record) # content.index THEN <<>>
        ELSE CASE data_type = 8 /\ v.tag = "Unsigned8" -> <<v.value>>
               [] data_type = 8 /\ v.tag = "Integer8" -> <<AsU8(v.value)>>
               [] data_type = 16 /\ v.tag \in {"Unsigned16", "Integer16"} -> Le16(v.value)
               [] data_type = 32 /\ v.tag = "Unsigned32" -> U32ToLe(v.value)
               [] data_type = 32 /\ v.tag = "Integer32" -> I32ToLe(v.value)
               [] OTHER -> <<>>

\* The loop over eds_data.od for one mapping record: the objects at the
\* positions `at` (those at the record's index), in od order
RECURSIVE TpdoRecordBytes(_, _, _)
TpdoRecordBytes(o, record, at) ==
    IF at = {} THEN <<>>
    ELSE LET j == Min(at)
         IN  TpdoObjectBytes(o[j], record) \o TpdoRecordBytes(o, record, at \ {j})

\* data_to_send of a TPDO: its mapping records at the sub-indices `subs`, in
\* ascending sub-index
RECURSIVE TpdoData(_, _, _)
TpdoData(o, k, subs) ==
    IF subs = {} THEN <<>>
    ELSE LET sub == Min(subs)
             record == o[TpdoRecordAt(o, k, sub)].value.value
         IN  TpdoRecordBytes(o, record,
                             {pos \in 1..Len(o) : LET c == o[pos] IN c.index = MapIndex(record)})
             \o TpdoData(o, k, subs \ {sub})

\* u16::from_str_radix(format!("{}80", tpdo_number + 1), 16)
TpdoFunctionCode(k) == (k + 1) * 256 + 128

\* The third loop of Node::parse_sync, from TPDO k on: one frame per TPDO with
\* mapping records.  CanId::new_base(..).unwrap() panics on an identifier above
\* 0x7FF, CanFrame::new(..).unwrap() on more than 8 data bytes.
RECURSIVE SyncTpdos(_, _)
SyncTpdos(self, k) ==
    IF self.panicked \/ k > 7 THEN self
    ELSE LET subs == TpdoSubIndices(self.od, k)
         IN  IF subs = {} THEN SyncTpdos(self, k + 1)
             ELSE LET data_to_send == TpdoData(self.od, k, subs)
                      id == BitOr(TpdoFunctionCode(k), NodeId)
                  IN  IF id > 2047 \/ Len(data_to_send) > 8
                      THEN Panic(self)
                      ELSE SyncTpdos(Send(self, Frame(id, data_to_send)), k + 1)

\* The third loop of Node::parse_sync taking the TPDOs in descending order
RECURSIVE SyncTpdosDown(_, _)
SyncTpdosDown(self, k) ==
    IF self.panicked \/ k < 0 THEN self
    ELSE LET subs == TpdoSubIndices(self.od, k)
         IN  IF subs = {} THEN SyncTpdosDown(self, k - 1)
             ELSE LET data_to_send == TpdoData(self.od, k, subs)
                      id == BitOr(TpdoFunctionCode(k), NodeId)
                  IN  IF id > 2047 \/ Len(data_to_send) > 8
                      THEN Panic(self)
                      ELSE SyncTpdosDown(Send(self, Frame(id, data_to_send)), k - 1)

\* parse_sync that emits the TPDOs in descending order
parse_sync_descending(self) ==
    IF self.overflow_checks /\ \E k \in 0..7 : TpdoOverflows(self.od, k)
    THEN Panic(self)
    ELSE SyncTpdosDown(self, 7)

\* Node::parse_sync: the second loop panics on the overflow of line 516 in a
\* build with overflow checks, before any frame is sent
parse_sync(self) ==
    IF self.overflow_checks /\ \E k \in 0..7 : TpdoOverflows(self.od, k)
    THEN Panic(self)
    ELSE SyncTpdos(self, 0)

\* Node::parse_emcy: prints, nothing else
parse_emcy(self) == self

----------------------------------------------------------------------------
(* The stand-alone functions of nmt.rs and sdo.rs.  A Result is <<"Ok", v>>  *)
(* or <<"Err">>; a call that panics yields <<"Panic">>.                     *)

Ok(v) == <<"Ok", v>>
Err == <<"Err">>
Panicked == <<"Panic">>

\* nmt.rs new_nmt_state
new_nmt_state(requested_state) ==
    IF requested_state \in NmtCommandBytes
    THEN Ok(NmtStateFor(requested_state))
    ELSE Err

\* nmt.rs process_nmt_command
process_nmt_command(node_id, current_nmt_state, data) ==
    IF Len(data) # 2 THEN Err
    ELSE LET requested_state == data[1]
             addressed_node == data[2]
         IN  IF addressed_node = node_id
             THEN new_nmt_state(requested_state)
             ELSE Ok(current_nmt_state)

\* nmt.rs create_nmt_frame
create_nmt_frame(node_id, state) ==
    LET cob == 1792     \* 0x700
        byte == CASE state = "Initializing" -> 0
                  [] state = "Stopped" -> 4
                  [] state = "Operational" -> 5
                  [] state = "PreOperational" -> 127
    IN  Frame(BitOr(cob, node_id), <<byte>>)

\* sdo.rs get_var: the position of the Var at (index, sub_index) in the OD, 0
\* when the OD holds none (there the OD is a map, with one Var for a key)
get_var(index, sub_index, o) ==
    LET at == {pos \in 1..Len(o) : LET c == o[pos] IN c.index = index /\ c.sub_index = sub_index}
    IN  IF at = {} THEN 0 ELSE Max(at)

\* sdo.rs sdo_upload: the 8 response bytes; built also when the Var is not found
\* or its type is not implemented (n = 0 and zero data then)
sdo_upload(o, input_data) ==
    LET index_to_get == get_index(input_data)
        sub_index_to_get == get_sub_index(input_data)
        at == get_var(index_to_get, sub_index_to_get, o)
        n == IF at = 0 THEN 0 ELSE UploadN(o[at].value)
        bytes == IF at = 0 THEN <<0, 0, 0, 0>> ELSE UploadBytes(o[at].value)
    IN  <<SdoHeader("InitiateUploadResponse", n, 1, 1)>>
        \o Le16(index_to_get) \o <<sub_index_to_get>> \o bytes

\* sdo.rs sdo_download: the OD after the write
sdo_download_od(o, input_data) ==
    LET at == get_var(get_index(input_data), get_sub_index(input_data), o)
    IN  IF at = 0 THEN o
        ELSE [o EXCEPT ![at].value = DownloadValue(o[at].value, input_data)]

\* sdo.rs sdo_download: the 8 response bytes; the function panics on a
\* request without index and sub-index, and in the write that comes first on
\* a request too short for the Var it names
sdo_download(o, input_data) ==
    IF \/ Len(input_data) < 4
       \/ \E at \in {get_var(get_index(input_data), get_sub_index(input_data), o)} :
              at # 0 /\ Len(input_data) < DownloadNeeds(o[at].value)
    THEN Panicked
    ELSE <<SdoHeader("InitiateDownloadResponse", 0, 0, 0)>>
         \o Le16(get_index(input_data)) \o <<get_sub_index(input_data)>>
         \o <<0, 0, 0, 0>>

\* sdo.rs create_sdo_response_frame
create_sdo_response_frame(node_id, data) == Frame(BitOr(1408, node_id), data)  \* 0x580 | node_id

\* sdo.rs sdo_response: [od, result], the OD after the call and what it returns
sdo_response_fn(node_id, o, data) ==
    IF Len(data) < 1 THEN [od |-> o, result |-> Panicked]
    ELSE LET command == client_command((data[1] \div 32) % 8)
             at == get_var(get_index(data), get_sub_index(data), o)
         IN  CASE command = "InitiateUpload" ->
                    IF Len(data) < 4 THEN [od |-> o, result |-> Panicked]
                    ELSE [od |-> o,
                          result |-> Ok(create_sdo_response_frame(
                                            node_id, sdo_upload(o, data)))]
               [] command = "InitiateDownload" ->
                    IF Len(sdo_download(o, data)) < 8
                    THEN [od |-> o, result |-> Panicked]
                    ELSE [od |-> sdo_download_od(o, data),
                          result |-> Ok(create_sdo_response_frame(
                                            node_id, sdo_download(o, data)))]
               [] OTHER -> [od |-> o, result |-> Err]

----------------------------------------------------------------------------
(* The loop of the listener.                                               *)

\* Node::update_controller, which start_socket calls at line 136 when the
\* handler of a frame has returned.  The method is not part of the sources;
\* the Node is built from node_tx and node_rx (main.rs:73), the ends of the
\* two channels of main.rs:58-59, and the controller sends its writes of the
\* statusword, the mode display and the actual position as set messages.  It
\* is taken to write the set messages waiting in node_rx to the OD, each to
\* the Var at its index and sub-index, in the order they were sent.
RECURSIVE node_update_controller(_, _)
node_update_controller(o, messages) ==
    IF messages = <<>> THEN o
    ELSE LET m == Head(messages)
             at == IF m.set_message = None THEN 0
                   ELSE get_var(m.set_message[1].index,
                                m.set_message[1].sub_index, o)
         IN  node_update_controller(
                 IF at = 0 THEN o
                 ELSE [o EXCEPT ![at].value = m.set_message[1].value],
                 Tail(messages))

\* The handler the loop of Node::start_socket calls for one received frame
\* (lines 112-134): node_id = id & 0x7F, function_code = id & (0x0F << 7)
start_socket_match(self, frame) ==
    LET node_id == frame.id % 128
        function_code == ((frame.id \div 128) % 16) * 128
    IN  IF node_id = 0
        THEN CASE function_code = 0 -> parse_nmt_command(self, frame.data)
               [] function_code = 128 -> parse_sync(self)
               [] OTHER -> self
        ELSE IF node_id = NodeId
        THEN CASE function_code = 128 -> parse_emcy(self)
               [] function_code = 512 -> parse_rpdo(self, 1, frame.data)    \* 0x200
               [] function_code = 768 -> parse_rpdo(self, 2, frame.data)    \* 0x300
               [] function_code = 1024 -> parse_rpdo(self, 3, frame.data)   \* 0x400
               [] function_code = 1280 -> parse_rpdo(self, 4, frame.data)   \* 0x500
               [] function_code = 1536 -> parse_sdo_client_request(self, frame.data) \* 0x600
               [] OTHER -> self
        ELSE self

----------------------------------------------------------------------------
(* The frames the bus delivers.                                            *)

\* NMT payloads of 0..MaxNmtLen bytes: the five commands and the unassigned
\* byte 0x05, addressed to this node or to the other one, zero beyond
NmtPayloads ==
    {[i \in 1..n |-> IF i = 1 THEN c ELSE IF i = 2 THEN a ELSE 0] :
        c \in NmtCommandBytes \cup {5}, a \in {NodeId, OtherNodeId}, n \in 0..MaxNmtLen}

\* (index, sub-index) of the entries SDO requests name: one of each integer
\* tag, the Boolean, Real32 and Unknown objects, and 0x2FFF sub 0, which the OD
\* does not hold
SdoIntegerTargets ==
    {<<24672, 0>>, <<24689, 0>>, <<24698, 0>>, <<24770, 1>>, <<24640, 0>>, <<24705, 0>>}
SdoOtherTargets == {<<8192, 0>>, <<8193, 0>>, <<8194, 0>>}
SdoAbsentTarget == <<12287, 0>>
SdoTargets == SdoIntegerTargets \cup SdoOtherTargets \cup {SdoAbsentTarget}

\* the tag the seed gives the entry at (index, sub-index)
SeedTag(t) ==
    IF \E i \in 1..Len(SeedOd) : SeedOd[i].index = t[1] /\ SeedOd[i].sub_index = t[2]
    THEN SeedOd[CHOOSE i \in 1..Len(SeedOd) :
                    SeedOd[i].index = t[1] /\ SeedOd[i].sub_index = t[2]].value.tag
    ELSE "None"

\* Bytes 4..7 of the download requests for an entry of this tag: zero, the
\* largest and the smallest value of the type at its width, the bytes beyond the
\* width set to 0xFF
DownloadWords(tag) ==
    CASE tag = "Integer8" -> {<<0, 0, 0, 0>>, <<127, 255, 255, 255>>, <<128, 255, 255, 255>>}
      [] tag = "Integer16" -> {<<0, 0, 0, 0>>, <<255, 127, 255, 255>>, <<0, 128, 255, 255>>}
      [] tag = "Integer32" -> {<<0, 0, 0, 0>>, <<255, 255, 255, 127>>, <<0, 0, 0, 128>>}
      [] tag = "Unsigned8" -> {<<0, 0, 0, 0>>, <<255, 255, 255, 255>>}
      [] tag = "Unsigned16" -> {<<0, 0, 0, 0>>, <<255, 255, 255, 255>>, <<15, 0, 0, 0>>}
      [] tag = "Unsigned32" -> {<<0, 0, 0, 0>>, <<255, 255, 255, 255>>}
      [] OTHER -> {<<1, 0, 0, 0>>}

\* Mapping records written to 0x1603 sub 1, the first record of RPDO4, whose
\* bit length is not the width of the entry they name: 0x607A0010 (the
\* Integer32 target position at 16 bits), 0x60400020 (the Unsigned16
\* controlword at 32 bits) and 0x60600010 (the Integer8 mode at 16 bits)
MappingWords == {<<16, 0, 122, 96>>, <<32, 0, 64, 96>>, <<16, 0, 96, 96>>}

SdoRequest(header, t, word) == <<header>> \o Le16(t[1]) \o <<t[2]>> \o word

\* Upload requests (0x40), download requests whose header advertises 4 bytes
\* (0x23) or 2 bytes (0x2B), requests with ccs = 3 (0x60) and ccs = 7 (0xE0),
\* and requests cut short.
SdoPayloads ==
    {SdoRequest(64, t, <<0, 0, 0, 0>>) : t \in SdoTargets}
    \cup UNION {{SdoRequest(h, t, w) : w \in DownloadWords(SeedTag(t)), h \in {35}} :
                    t \in SdoTargets}
    \cup {SdoRequest(43, <<24640, 0>>, <<15, 0, 0, 0>>)}
    \cup {SdoRequest(35, <<5635, 1>>, w) : w \in MappingWords}
    \cup {SdoRequest(h, t, <<0, 0, 0, 0>>) : h \in {96, 224},
                                             t \in {<<24640, 0>>, SdoAbsentTarget}}
    \cup {<<>>, <<64, 64, 96>>, <<64, 64, 96, 0>>,
          <<35, 122, 96, 0, 1>>, <<47, 96, 96, 0, 1>>}

\* RPDO payloads: the leading bytes of two patterns
RpdoPatterns == {<<15, 0, 16, 14, 0, 0, 0, 0>>, <<128, 255, 127, 1, 254, 255, 2, 3>>}
RpdoLengths == {0, 1, 3, 5, 6, 8}
RpdoPayloads == {SubSeq(p, 1, n) : p \in RpdoPatterns, n \in RpdoLengths}

\* Frames the listener ignores: SDO and RPDO traffic of the other node, and a
\* function code of this node it has no handler for (0x700)
IgnoredFrames ==
    {Frame(1536 + OtherNodeId, SdoRequest(35, <<24640, 0>>, <<15, 0, 0, 0>>)),
     Frame(512 + OtherNodeId, <<15, 0>>),
     Frame(1792 + NodeId, <<5>>)}

----------------------------------------------------------------------------
(* The motor controller of cia402_runner.rs.                               *)

\* enum State
States ==
    {"NotReadyToSwitchOn", "SwitchedOnDisabled", "ReadyToSwitchOn", "SwitchedOn",
     "OperationEnabled", "QuickStopActive", "FaultReactionActive", "Fault"}

\* enum Command
Commands ==
    {"None", "Shutdown", "SwitchOn", "DisableVoltage", "QuickStop",
     "DisableOperation", "EnableOperation", "EnableOperationAfterQuickStop",
     "FaultReset"}

\* ModeOfOperation as i8
ModeNumber(mode) ==
    CASE mode = "NoMode" -> 0
      [] mode = "ProfilePosition" -> 1
      [] mode = "ProfileVelocity" -> 3
      [] mode = "Homing" -> 6

\* The fields of a MotorController after MotorController::initialize, and the
\* place of its task in MotorController::run.  timer holds the time elapsed
\* since the Instant stored in self.timer, a Duration counted in microseconds,
\* and motion_map is a function from millisecond keys to positions.
\* speed_factor is the argument of run.
\* pc is "top" while the task is between two iterations of the loop of run (at
\* sleep_until or at try_recv) and the line of the call while it is suspended
\* in a self.tx.send(..).await: "491" (parse_mode_of_operation), "281" (the
\* send_messages of the Profile Position arm), "329" (the Moving arm) or "565"
\* (set_statusword); out is the Message that send was given, queue the
\* Messages send_messages has still to send.  sent holds the Messages given to
\* self.tx.send in the current iteration, clock the readings of
\* self.timer.elapsed() in it, and panicked tells whether the task has
\* panicked.
initialize ==
    [controlword |-> 0,
     command |-> "None",
     state |-> "NotReadyToSwitchOn",
     mode_of_operation |-> "NoMode",
     status |-> [statusword |-> 0, mode_of_operation_display |-> 0,
                 actual_position |-> 0],
     profile_position_status |-> "SetpointAcknownlegde",
     profile_velocity_status |-> "WaitingForStart",
     home_status |-> "WaitingForStart",
     halt |-> FALSE,
     control_oms1 |-> <<FALSE, FALSE>>,
     target_reached |-> FALSE,
     start_travel |-> FALSE,
     status_oms1 |-> FALSE,
     status_oms2 |-> FALSE,
     timer |-> 0,
     acceleration |-> None,
     max_acceleration |-> None,
     profile_velocity |-> None,
     actual_position |-> 0,
     target_position |-> None,
     relative |-> FALSE,
     motion_map |-> <<>>,
     speed_factor |-> 1,
     pc |-> "top",
     out |-> None,
     queue |-> <<>>,
     sent |-> <<>>,
     clock |-> <<>>,
     panicked |-> FALSE]

\* struct SetMessage, struct GetMessage, struct Message
SetMessage(i, s, v) == [index |-> i, sub_index |-> s, value |-> v]
GetMessage(i, s) == [index |-> i, sub_index |-> s]

construct_set_message(index, sub_index, value) ==
    [set_message |-> Some(SetMessage(index, sub_index, value)), get_message |-> None]

construct_get_message(index, sub_index) ==
    [set_message |-> None, get_message |-> Some(GetMessage(index, sub_index))]

\* self.tx.send(message).await at line `at`: the task is suspended in the
\* send, which returns when the channel has taken the message
McSend(self, message, at) ==
    [self EXCEPT !.sent = Append(@, message), !.out = Some(message), !.pc = at]

\* whether the task is suspended in a send, or has panicked
Stopped(self) == self.panicked \/ self.out # None

\* Duration::from_millis, a Duration being a number of microseconds
from_millis(millis) == 1000 * millis

\* Duration::as_millis: the whole milliseconds of a Duration
as_millis(duration) == duration \div 1000

\* a Duration of d microseconds passes
Wait(self, d) ==
    [self EXCEPT !.timer = IF @ + d > from_millis(MaxTimer)
                           THEN from_millis(MaxTimer) ELSE @ + d]

\* self.timer.elapsed(): the Duration since the Instant stored in self.timer
ReadClock(self) == [self EXCEPT !.clock = Append(@, self.timer)]

get_bit_16(u16_value, index) == (u16_value \div 2^index) % 2 = 1

set_bit_16(u16_value, bit_position, value) ==
    IF value
    THEN IF get_bit_16(u16_value, bit_position) THEN u16_value
         ELSE u16_value + 2^bit_position
    ELSE IF get_bit_16(u16_value, bit_position) THEN u16_value - 2^bit_position
         ELSE u16_value

RECURSIVE set_bits(_, _)
set_bits(statusword, bits) ==
    IF bits = <<>> THEN statusword
    ELSE set_bits(set_bit_16(statusword, Head(bits)[1], Head(bits)[2]), Tail(bits))

\* BIT_INDICES with bit 4 in the place of bit 3
BIT_INDICES_bit4 == <<0, 1, 2, 4, 7>>

\* BIT_INDICES of parse_controlword
BIT_INDICES == <<0, 1, 2, 3, 7>>

\* The match of parse_controlword on (bit 7, bit 3, bit 2, bit 1, bit 0), its
\* arms tried in the order they are written.
CommandOf(controlword) ==
    LET b0 == get_bit_16(controlword, BIT_INDICES[1])
        b1 == get_bit_16(controlword, BIT_INDICES[2])
        b2 == get_bit_16(controlword, BIT_INDICES[3])
        b3 == get_bit_16(controlword, BIT_INDICES[4])
        b7 == get_bit_16(controlword, BIT_INDICES[5])
    IN  IF ~b7 /\ b2 /\ b1 /\ ~b0 THEN "Shutdown"
        ELSE IF ~b7 /\ ~b3 /\ b2 /\ b1 /\ b0 THEN "SwitchOn"
        ELSE IF ~b7 /\ ~b1 THEN "DisableVoltage"
        ELSE IF ~b7 /\ ~b2 /\ b1 THEN "QuickStop"
        ELSE IF ~b7 /\ b3 /\ b2 /\ b1 /\ b0 THEN "EnableOperation"
        ELSE "FaultReset"    \* (true, _, _, _, _): the match is exhaustive

parse_controlword(self, value) ==
    LET controlword == IF value.tag = "Unsigned16" THEN value.value
                       ELSE self.controlword
    IN  [self EXCEPT
            !.controlword = controlword,
            !.command = CommandOf(controlword),
            !.control_oms1 = <<get_bit_16(controlword, 4), self.control_oms1[1]>>,
            !.relative = get_bit_16(controlword, 6),
            !.halt = get_bit_16(controlword, 8)]

\* ModeOfOperation::mode_of_operation; any other value panics
mode_of_operation(value) ==
    CASE value = 0 -> "NoMode"
      [] value = 1 -> "ProfilePosition"
      [] value = 3 -> "ProfileVelocity"
      [] value = 6 -> "Homing"
      [] OTHER -> "panic"

\* parse_mode_of_operation that leaves the Profile Position sub-state alone
parse_mode_of_operation_no_reset(self, value) ==
    LET mode == IF value.tag = "Integer8" THEN mode_of_operation(value.value)
                ELSE self.mode_of_operation
    IN  IF mode = "panic" THEN [self EXCEPT !.panicked = TRUE]
        ELSE IF self.mode_of_operation # mode
        THEN McSend([self EXCEPT
                        !.mode_of_operation = mode,
                        !.profile_velocity_status = "WaitingForStart",
                        !.status.mode_of_operation_display = ModeNumber(mode)],
                    construct_set_message(24673, 0,
                        DataValue("Integer8", ModeNumber(mode))),   \* 0x6061
                    "491")
        ELSE self

parse_mode_of_operation(self, value) ==
    LET mode == IF value.tag = "Integer8" THEN mode_of_operation(value.value)
                ELSE self.mode_of_operation
    IN  IF mode = "panic" THEN [self EXCEPT !.panicked = TRUE]
        ELSE IF self.mode_of_operation # mode
        THEN McSend([self EXCEPT
                        !.mode_of_operation = mode,
                        !.profile_position_status = "SetpointAcknownlegde",
                        !.profile_velocity_status = "WaitingForStart",
                        !.status.mode_of_operation_display = ModeNumber(mode)],
                    construct_set_message(24673, 0,
                        DataValue("Integer8", ModeNumber(mode))),   \* 0x6061
                    "491")
        ELSE self

\* u32 as f64
AsF64(value) == value[1] * 65536 + value[2]

parse_velocity(self, value) ==
    IF value.tag = "Unsigned32"
    THEN [self EXCEPT !.profile_velocity = Some(AsF64(value.value))] ELSE self

parse_acceleration(self, value) ==
    IF value.tag = "Unsigned32"
    THEN [self EXCEPT !.acceleration = Some(AsF64(value.value))] ELSE self

parse_max_acceleration(self, value) ==
    IF value.tag = "Unsigned32"
    THEN [self EXCEPT !.max_acceleration = Some(AsF64(value.value))] ELSE self

parse_target_position(self, value) ==
    IF value.tag = "Integer32"
    THEN [self EXCEPT !.target_position = Some(value.value)] ELSE self

update_variable(self, data) ==
    CASE data.index = 24640 /\ data.sub_index = 0 -> parse_controlword(self, data.value)       \* 0x6040
      [] data.index = 24672 /\ data.sub_index = 0 -> parse_mode_of_operation(self, data.value) \* 0x6060
      [] data.index = 24705 /\ data.sub_index = 0 -> parse_velocity(self, data.value)          \* 0x6081
      [] data.index = 24707 /\ data.sub_index = 0 -> parse_acceleration(self, data.value)      \* 0x6083
      [] data.index = 24773 /\ data.sub_index = 0 -> parse_max_acceleration(self, data.value)  \* 0x60C5
      [] data.index = 24698 /\ data.sub_index = 0 -> parse_target_position(self, data.value)   \* 0x607A
      [] OTHER -> self

\* update_state with OperationEnabled kept on the command SwitchOn
NextState_keeps_enabled(state, command) ==
    CASE state = "NotReadyToSwitchOn" -> "SwitchedOnDisabled"
      [] state = "SwitchedOnDisabled" ->
            IF command = "Shutdown" THEN "ReadyToSwitchOn" ELSE "SwitchedOnDisabled"
      [] state = "ReadyToSwitchOn" ->
            IF command = "SwitchOn" THEN "SwitchedOn"
            ELSE IF command = "DisableVoltage" THEN "SwitchedOnDisabled"
            ELSE "ReadyToSwitchOn"
      [] state = "SwitchedOn" ->
            IF command = "EnableOperation" THEN "OperationEnabled"
            ELSE IF command = "Shutdown" THEN "ReadyToSwitchOn"
            ELSE "SwitchedOn"
      [] state = "OperationEnabled" ->
            IF command = "QuickStop" THEN "QuickStopActive"
            ELSE IF command = "DisableVoltage" THEN "SwitchedOnDisabled"
            ELSE "OperationEnabled"
      [] state = "QuickStopActive" ->
            IF command = "DisableVoltage" THEN "SwitchedOnDisabled"
            ELSE IF command = "EnableOperationAfterQuickStop" THEN "OperationEnabled"
            ELSE "QuickStopActive"
      [] state = "FaultReactionActive" -> "Fault"
      [] state = "Fault" ->
            IF command = "FaultReset" THEN "SwitchedOnDisabled" ELSE "Fault"

\* The match of update_state with a row that takes QuickStopActive to
\* FaultReactionActive on FaultReset
NextState_with_fault(state, command) ==
    CASE state = "NotReadyToSwitchOn" -> "SwitchedOnDisabled"
      [] state = "SwitchedOnDisabled" ->
            IF command = "Shutdown" THEN "ReadyToSwitchOn" ELSE "SwitchedOnDisabled"
      [] state = "ReadyToSwitchOn" ->
            IF command = "SwitchOn" THEN "SwitchedOn"
            ELSE IF command = "DisableVoltage" THEN "SwitchedOnDisabled"
            ELSE "ReadyToSwitchOn"
      [] state = "SwitchedOn" ->
            IF command = "EnableOperation" THEN "OperationEnabled"
            ELSE IF command = "Shutdown" THEN "ReadyToSwitchOn"
            ELSE "SwitchedOn"
      [] state = "OperationEnabled" ->
            IF command = "QuickStop" THEN "QuickStopActive"
            ELSE IF command = "DisableVoltage" THEN "SwitchedOnDisabled"
            ELSE IF command = "SwitchOn" THEN "SwitchedOn"
            ELSE "OperationEnabled"
      [] state = "QuickStopActive" ->
            IF command = "DisableVoltage" THEN "SwitchedOnDisabled"
            ELSE IF command = "EnableOperationAfterQuickStop" THEN "OperationEnabled"
            ELSE IF command = "FaultReset" THEN "FaultReactionActive"
            ELSE "QuickStopActive"
      [] state = "FaultReactionActive" -> "Fault"
      [] state = "Fault" ->
            IF command = "FaultReset" THEN "SwitchedOnDisabled" ELSE "Fault"

\* The match of update_state on (state, command)
NextState(state, command) ==
    CASE state = "NotReadyToSwitchOn" -> "SwitchedOnDisabled"
      [] state = "SwitchedOnDisabled" ->
            IF command = "Shutdown" THEN "ReadyToSwitchOn" ELSE "SwitchedOnDisabled"
      [] state = "ReadyToSwitchOn" ->
            IF command = "SwitchOn" THEN "SwitchedOn"
            ELSE IF command = "DisableVoltage" THEN "SwitchedOnDisabled"
            ELSE "ReadyToSwitchOn"
      [] state = "SwitchedOn" ->
            IF command = "EnableOperation" THEN "OperationEnabled"
            ELSE IF command = "Shutdown" THEN "ReadyToSwitchOn"
            ELSE "SwitchedOn"
      [] state = "OperationEnabled" ->
            IF command = "QuickStop" THEN "QuickStopActive"
            ELSE IF command = "DisableVoltage" THEN "SwitchedOnDisabled"
            ELSE IF command = "SwitchOn" THEN "SwitchedOn"
            ELSE "OperationEnabled"
      [] state = "QuickStopActive" ->
            IF command = "DisableVoltage" THEN "SwitchedOnDisabled"
            ELSE IF command = "EnableOperationAfterQuickStop" THEN "OperationEnabled"
            ELSE "QuickStopActive"
      [] state = "FaultReactionActive" -> "Fault"
      [] state = "Fault" ->
            IF command = "FaultReset" THEN "SwitchedOnDisabled" ELSE "Fault"

update_state(self) == [self EXCEPT !.state = NextState(self.state, self.command)]

\* The duration of the move the S-curve generator plans, in milliseconds, and
\* the position it gives for sample point of points on the way from p0 to q1
\* (the s_curve crate is not part of the sources: the planned move is taken
\* to last MoveDuration, to begin at p0 and to end at q1, and its position
\* function to be linear between them).
MoveDuration == 300

s_curve(p0, q1, point, points) == p0 + ((q1 - p0) * point) \div points

\* f64::NAN, the value of 0./0., written as a number no position takes
NaN == -1000000

\* construct_motion_map: <<"Err">> for invalid parameters, otherwise the
\* BTreeMap.  The key of sample point is
\* (point * ((total_duration * 1000) / speed_factor) / points) as usize (line
\* 666).  A travel shorter than 10 increments has points = 0: the sample time
\* 0/0 is NaN, which casts to key 0, and the position is taken to be NaN.
construct_motion_map(profile_acceleration, max_acceleration, profile_velocity, actual_position, target_position, relative, speed_factor) ==
    LET acceleration == IF profile_acceleration = 0 THEN max_acceleration
                        ELSE profile_acceleration
        travel_distance == target_position - actual_position
        q1 == IF relative THEN actual_position + target_position
              ELSE target_position
        abs == IF travel_distance < 0 THEN -travel_distance ELSE travel_distance
        points == abs \div 10
        time(point) == (point * MoveDuration) \div (speed_factor * points)
    IN  IF max_acceleration = 0 THEN Err
        ELSE IF acceleration = 0 \/ profile_velocity = 0 THEN Err
        ELSE IF actual_position = NaN THEN Ok([key \in {0} |-> NaN])
        ELSE IF travel_distance = 0 THEN Ok([key \in {0} |-> 0])
        ELSE IF points = 0 THEN Ok([key \in {0} |-> NaN])
        ELSE Ok([key \in {time(point) : point \in 0..points} |->
                    s_curve(actual_position, q1,
                            Max({point \in 0..points : time(point) = key}), points)])

\* a != b on f64: NaN differs from everything, itself included
FloatNe(a, b) == IF a = NaN \/ b = NaN THEN TRUE ELSE a # b

\* f64 as i32
AsI32(position) == IF position = NaN THEN 0 ELSE position

\* self.timer = Instant::now()
ResetTimer(self) == [self EXCEPT !.timer = 0]

\* The match on the four parameters that follows send_messages in the
\* SetpointAcknownlegde arm (lines 283-310)
StartMove(self) ==
    IF self.acceleration = None \/ self.max_acceleration = None
       \/ self.profile_velocity = None \/ self.target_position = None
    THEN self
    ELSE LET motion_map ==
                 construct_motion_map(self.acceleration[1],
                     self.max_acceleration[1], self.profile_velocity[1],
                     self.actual_position, self.target_position[1], self.relative,
                     self.speed_factor)
         IN  IF motion_map[1] = "Ok"
             THEN ResetTimer([self EXCEPT
                      !.motion_map = motion_map[2],
                      !.max_acceleration = None,
                      !.acceleration = None,
                      !.profile_velocity = None,
                      !.target_position = None,
                      !.status_oms1 = TRUE,
                      !.start_travel = FALSE,
                      !.profile_position_status = "Moving"])
             ELSE [self EXCEPT !.status_oms1 = FALSE]

\* The end of the Moving arm (lines 337-342): the second reading of the clock
MovingEnd(self) ==
    LET s == ReadClock(self)
    IN  IF DOMAIN s.motion_map = {} THEN [s EXCEPT !.panicked = TRUE]
        ELSE IF s.timer > from_millis(Max(DOMAIN s.motion_map))
        THEN [s EXCEPT !.target_reached = TRUE,
                       !.profile_position_status = "SetpointAcknownlegde"]
        ELSE s

\* update_operation, mode ProfilePosition, up to its first send.  In the
\* Moving arm the clock is read at line 318, in whole milliseconds, and again
\* at line 339, a Duration of later microseconds after, when no send lies
\* between the two.
ProfilePosition(self, later) ==
    IF self.profile_position_status = "SetpointAcknownlegde"
    THEN LET edge == self.control_oms1[1] /\ ~self.control_oms1[2]
             s1 == IF edge THEN [self EXCEPT !.start_travel = TRUE,
                                             !.target_reached = FALSE]
                   ELSE self
         IN  IF ~s1.start_travel THEN s1
             ELSE McSend([s1 EXCEPT !.queue =
                             <<construct_get_message(24707, 0),     \* 0x6083
                               construct_get_message(24705, 0),     \* 0x6081
                               construct_get_message(24698, 0)>>],  \* 0x607A
                         construct_get_message(24773, 0),           \* 0x60C5
                         "281")
    ELSE \* Moving
         LET s1 == ReadClock([self EXCEPT !.target_reached = FALSE])
             elapsed_time == as_millis(s1.timer)
             passed == {key \in DOMAIN s1.motion_map : key <= elapsed_time}
         IN  IF passed # {}
                /\ FloatNe(s1.actual_position, s1.motion_map[Max(passed)])
             THEN McSend([s1 EXCEPT !.actual_position = s1.motion_map[Max(passed)]],
                         construct_set_message(24676, 0,        \* 0x6064
                             DataValue("Integer32",
                                       AsI32(s1.motion_map[Max(passed)]))),
                         "329")
             ELSE MovingEnd(Wait(s1, later))

\* ramp_time of the ProfileVelocity arm
Ramp == 500

\* update_operation, mode ProfileVelocity
ProfileVelocity(self) ==
    CASE self.profile_velocity_status = "WaitingForStart" ->
            IF ~self.halt
            THEN ResetTimer([self EXCEPT !.target_reached = TRUE,
                                         !.profile_velocity_status = "RamingUp"])
            ELSE [self EXCEPT !.target_reached = TRUE]
      [] self.profile_velocity_status = "RamingUp" ->
            LET s == ReadClock([self EXCEPT !.target_reached = FALSE])
            IN  IF s.timer > from_millis(Ramp)
                THEN [s EXCEPT !.profile_velocity_status = "Rotating"]
                ELSE IF s.halt
                THEN ResetTimer([s EXCEPT !.profile_velocity_status = "RampingDown"])
                ELSE s
      [] self.profile_velocity_status = "Rotating" ->
            IF self.halt
            THEN ResetTimer([self EXCEPT !.target_reached = TRUE,
                                         !.profile_velocity_status = "RampingDown"])
            ELSE [self EXCEPT !.target_reached = TRUE]
      [] self.profile_velocity_status = "RampingDown" ->
            LET s == ReadClock([self EXCEPT !.target_reached = FALSE])
            IN  IF s.timer > from_millis(Ramp)
                THEN [s EXCEPT !.profile_velocity_status = "WaitingForStart"]
                ELSE s

\* the duration of a homing run
HomingTime == 100

\* Homing started by the level of controlword bit 4 instead of its rising edge
Homing_on_level(self) ==
    IF self.home_status = "WaitingForStart"
    THEN IF self.control_oms1[1]
         THEN ResetTimer([self EXCEPT !.target_reached = TRUE,
                                      !.status_oms2 = FALSE,
                                      !.home_status = "Homing"])
         ELSE [self EXCEPT !.target_reached = TRUE, !.status_oms2 = FALSE]
    ELSE LET s == ReadClock(self)
         IN  IF s.timer > from_millis(HomingTime)
             THEN [s EXCEPT !.target_reached = TRUE,
                            !.status_oms1 = TRUE,
                            !.status_oms2 = FALSE,
                            !.home_status = "WaitingForStart"]
             ELSE [s EXCEPT !.target_reached = FALSE,
                            !.status_oms1 = FALSE,
                            !.status_oms2 = FALSE]

\* update_operation, mode Homing
Homing(self) ==
    IF self.home_status = "WaitingForStart"
    THEN IF self.control_oms1[1] /\ ~self.control_oms1[2]
         THEN ResetTimer([self EXCEPT !.target_reached = TRUE,
                                      !.status_oms2 = FALSE,
                                      !.home_status = "Homing"])
         ELSE [self EXCEPT !.target_reached = TRUE, !.status_oms2 = FALSE]
    ELSE LET s == ReadClock(self)
         IN  IF s.timer > from_millis(HomingTime)
             THEN [s EXCEPT !.target_reached = TRUE,
                            !.status_oms1 = TRUE,
                            !.status_oms2 = FALSE,
                            !.home_status = "WaitingForStart"]
             ELSE [s EXCEPT !.target_reached = FALSE,
                            !.status_oms1 = FALSE,
                            !.status_oms2 = FALSE]

\* update_operation that does not look at the drive state
update_operation_any_state(self, later) ==
    CASE self.mode_of_operation = "ProfilePosition" -> ProfilePosition(self, later)
      [] self.mode_of_operation = "ProfileVelocity" -> ProfileVelocity(self)
      [] self.mode_of_operation = "Homing" -> Homing(self)
      [] OTHER -> self

\* update_operation, up to its first send
update_operation(self, later) ==
    IF self.state # "OperationEnabled" THEN self
    ELSE CASE self.mode_of_operation = "ProfilePosition" -> ProfilePosition(self, later)
           [] self.mode_of_operation = "ProfileVelocity" -> ProfileVelocity(self)
           [] self.mode_of_operation = "Homing" -> Homing(self)
           [] OTHER -> self

\* bit_configs of set_statusword
bit_configs(state) ==
    CASE state = "NotReadyToSwitchOn" ->
            <<<<0, FALSE>>, <<1, FALSE>>, <<2, FALSE>>, <<3, FALSE>>, <<5, FALSE>>, <<6, FALSE>>>>
      [] state = "SwitchedOnDisabled" ->
            <<<<0, FALSE>>, <<1, FALSE>>, <<2, FALSE>>, <<3, FALSE>>, <<6, TRUE>>>>
      [] state = "ReadyToSwitchOn" ->
            <<<<0, TRUE>>, <<1, FALSE>>, <<2, FALSE>>, <<3, FALSE>>, <<5, TRUE>>, <<6, FALSE>>>>
      [] state = "SwitchedOn" ->
            <<<<0, TRUE>>, <<1, TRUE>>, <<2, FALSE>>, <<3, FALSE>>, <<5, TRUE>>, <<6, FALSE>>>>
      [] state = "OperationEnabled" ->
            <<<<0, TRUE>>, <<1, TRUE>>, <<2, TRUE>>, <<3, FALSE>>, <<5, TRUE>>, <<6, FALSE>>>>
      [] state = "QuickStopActive" ->
            <<<<0, TRUE>>, <<1, TRUE>>, <<2, TRUE>>, <<3, FALSE>>, <<5, FALSE>>, <<6, FALSE>>>>
      [] state = "FaultReactionActive" ->
            <<<<0, TRUE>>, <<1, TRUE>>, <<2, TRUE>>, <<3, TRUE>>, <<6, FALSE>>>>
      [] state = "Fault" ->
            <<<<0, FALSE>>, <<1, FALSE>>, <<2, FALSE>>, <<3, TRUE>>, <<6, FALSE>>>>

\* set_statusword with target_reached written to bit 11
set_statusword_bit11(self) ==
    LET statusword ==
            set_bit_16(set_bit_16(set_bit_16(
                set_bits(self.status.statusword, bit_configs(self.state)),
                11, self.target_reached),
                12, self.status_oms1),
                13, self.status_oms2)
    IN  IF self.status.statusword # statusword
        THEN McSend([self EXCEPT !.status.statusword = statusword],
                    construct_set_message(24641, 0,
                        DataValue("Unsigned16", statusword)),
                    "565")
        ELSE self

\* set_statusword that sends the statusword whether or not it has changed
set_statusword_always(self) ==
    LET statusword ==
            set_bit_16(set_bit_16(set_bit_16(
                set_bits(self.status.statusword, bit_configs(self.state)),
                10, self.target_reached),
                12, self.status_oms1),
                13, self.status_oms2)
    IN  McSend([self EXCEPT !.status.statusword = statusword],
               construct_set_message(24641, 0,
                   DataValue("Unsigned16", statusword)),
               "565")

\* set_statusword, up to its send: the new statusword is stored before the
\* send is awaited
set_statusword(self) ==
    LET statusword ==
            set_bit_16(set_bit_16(set_bit_16(
                set_bits(self.status.statusword, bit_configs(self.state)),
                10, self.target_reached),
                12, self.status_oms1),
                13, self.status_oms2)
    IN  IF self.status.statusword # statusword
        THEN McSend([self EXCEPT !.status.statusword = statusword],
                    construct_set_message(24641, 0,                       \* 0x6041
                        DataValue("Unsigned16", statusword)),
                    "565")
        ELSE self

\* update_controller from the return of update_operation on
AfterOperation(self) == IF Stopped(self) THEN self ELSE set_statusword(self)

\* update_controller, up to the first send of the iteration
update_controller(self, later) ==
    AfterOperation(update_operation(update_state(self), later))

\* The controller at the call of update_operation in the iteration of run
\* that finds data in the channel: the message has been decoded by
\* update_variable, its send (line 491) has returned, and update_state has
\* stepped the drive state.
BeforeOperation(self, data) ==
    LET s0 == [self EXCEPT !.sent = <<>>, !.clock = <<>>]
        s1 == IF data # None /\ data[1].set_message # None
              THEN update_variable(s0, data[1].set_message[1])
              ELSE s0
    IN  IF s1.panicked THEN s1
        ELSE update_state([s1 EXCEPT !.out = None, !.pc = "top"])

\* One iteration of the loop of MotorController::run, up to its first send:
\* a Duration d has passed since the task was last at work, data is what
\* self.rx.try_recv() returns (None for Err).  A panic in update_variable ends
\* the task before update_controller is called.  The iteration ends with pc =
\* "top", at sleep_until.
run(self, data, d, later) ==
    LET s0 == Wait([self EXCEPT !.sent = <<>>, !.clock = <<>>], d)
        s1 == IF data # None /\ data[1].set_message # None
              THEN update_variable(s0, data[1].set_message[1])
              ELSE s0
    IN  IF Stopped(s1) THEN s1 ELSE update_controller(s1, later)

\* The send the task is suspended in returns after a Duration d, and the
\* iteration goes on to its next send or to its end.
resume(self, d, later) ==
    LET s == Wait([self EXCEPT !.out = None, !.pc = "top"], d)
    IN  CASE self.pc = "491" -> update_controller(s, later)
          [] self.pc = "281" ->
                IF s.queue # <<>>
                THEN McSend([s EXCEPT !.queue = Tail(@)], Head(s.queue), "281")
                ELSE AfterOperation(StartMove(s))
          [] self.pc = "329" -> AfterOperation(MovingEnd(s))
          [] self.pc = "565" -> s

----------------------------------------------------------------------------
(* The two tasks: the listener (Node::start_socket) and the controller     *)
(* (MotorController::run), which main.rs spawns side by side.              *)

NoFrame == Frame(0, <<>>)

\* the variables of the controller task and of the two channels
controller_vars == <<controller, ticks, channel, controller_rx, iteration>>

\* the variables of the listener task
listener_vars == <<od, nmt_state, motor_controller, listener, rx, tx, received, turn>>

Init ==
    /\ od = SeedOd
    /\ nmt_state = "Initializing"
    /\ motor_controller = NodeMotorController
    /\ listener = "running"
    /\ rx = NoFrame
    /\ tx = <<>>
    /\ received = 0
    /\ controller = initialize
    /\ ticks = 0
    /\ channel = <<>>
    /\ controller_rx = <<>>
    /\ iteration = <<>>
    /\ eds = <<>>
    /\ turn = <<>>

\* socket.recv() returns frame and its handler runs, to its first
\* socket.send(..).await, where the task is suspended with the frame handed
\* over, or, when it sends nothing, to its return or its panic.  What the
\* handler goes on to do after the send is fixed by now: the Node is owned by
\* this task, and nothing else writes it.  The build is the debug or the
\* release profile.  (A recv() that returns Err changes nothing: a stuttering
\* step.)
Receive(frame) ==
    /\ listener = "running"
    /\ received < MaxFrames
    /\ \E checks \in BOOLEAN :
           \E self \in {start_socket_match(
                            NodeOf(od, nmt_state, motor_controller, checks), frame)} :
               IF self.sent = <<>>
               THEN /\ od' = self.od
                    /\ nmt_state' = self.nmt_state
                    /\ motor_controller' = self.motor_controller
                    /\ listener' = IF self.panicked THEN "panicked" ELSE "updating"
                    /\ turn' = <<>>
               ELSE /\ od' = self.at_send[1].od
                    /\ nmt_state' = self.at_send[1].nmt_state
                    /\ motor_controller' = self.at_send[1].motor_controller
                    /\ listener' = "sending"
                    /\ turn' = <<self, [od |-> od, nmt_state |-> nmt_state,
                                        motor_controller |-> motor_controller,
                                        rx |-> rx]>>
    /\ rx' = frame
    /\ tx' = <<>>
    /\ received' = received + 1
    /\ UNCHANGED <<controller_vars, eds>>

\* socket.send(frame).await returns and the handler runs on, to its next
\* send, its return or its panic
SendReturns ==
    /\ listener = "sending"
    /\ LET self == turn[1]
           i == Len(tx) + 1
       IN  /\ tx' = Append(tx, self.sent[i])
           /\ IF i < Len(self.sent)
              THEN /\ od' = self.at_send[i + 1].od
                   /\ nmt_state' = self.at_send[i + 1].nmt_state
                   /\ motor_controller' = self.at_send[i + 1].motor_controller
                   /\ listener' = "sending"
                   /\ turn' = turn
              ELSE /\ od' = self.od
                   /\ nmt_state' = self.nmt_state
                   /\ motor_controller' = self.motor_controller
                   /\ listener' = IF self.panicked THEN "panicked" ELSE "updating"
                   /\ turn' = <<>>
    /\ UNCHANGED <<rx, received, controller_vars, eds>>

\* a start_socket that calls update_controller between the sends of a handler
\* as well
calls_update_controller_between_sends(position) ==
    position \in {"updating", "sending"}

\* The one call of update_controller in start_socket is that of line 136,
\* after the match on the frame has returned: position is where the listener
\* task stands.
calls_update_controller(position) == position = "updating"

\* self.update_controller().await (line 136): the Messages the controller has
\* sent by now are taken out of node_rx, and the loop turns to recv()
UpdateController ==
    /\ calls_update_controller(listener)
    /\ od' = node_update_controller(od, channel)
    /\ channel' = <<>>
    /\ listener' = IF listener = "updating" THEN "running" ELSE listener
    /\ UNCHANGED <<nmt_state, motor_controller, rx, tx, received, controller, ticks,
                   controller_rx, iteration, eds, turn>>

\* The milliseconds the elapsed time is compared with by the sub-states that
\* read the clock: Moving with the keys of the motion map (lines 319, 339),
\* RamingUp and RampingDown with the ramp time (370, 394), Homing with the
\* homing time (424).  Each of them is entered with self.timer =
\* Instant::now() (lines 297, 360, 373, 384, 414), so that outside of them
\* the elapsed time is read by nothing before the timer is set anew.
Marks(self) ==
    (IF self.profile_position_status = "Moving" THEN DOMAIN self.motion_map ELSE {})
    \cup (IF self.profile_velocity_status \in {"RamingUp", "RampingDown"}
          THEN {Ramp} ELSE {})
    \cup (IF self.home_status = "Homing" THEN {HomingTime} ELSE {})

\* The readings of self.timer.elapsed() that differ for the controller: a
\* reading of exactly a mark, and a reading between that mark and the next
\* (past the last).  Any time may pass before the task is scheduled again or
\* a send of it is served; of the readings between two marks, which every
\* comparison of the code treats alike, the one a Fraction past the earlier
\* mark is taken.
Instants(self) ==
    UNION {{from_millis(mark), from_millis(mark) + Fraction} : mark \in Marks(self)}

\* The Durations that may pass between two steps of the controller task:
\* none, or as much as takes the clock to one of the later Instants.
Durations(self) ==
    {0} \cup {instant - self.timer :
                 instant \in {i \in Instants(self) : i >= self.timer}}

\* The Durations between the two readings of the clock in the Moving arm of
\* update_operation, the first d after the task was last at work; no other
\* arm reads the clock twice.
SecondRead(self, d) ==
    IF self.profile_position_status = "Moving" THEN Durations(Wait(self, d)) ELSE {0}

\* the drive state and the three flags set_statusword reads
StatusInputs(self) ==
    <<self.state, self.target_reached, self.status_oms1, self.status_oms2>>

\* An iteration of the loop of MotorController::run begins: try_recv returns
\* data (None for Err), and the iteration runs to its first send, where the
\* task is suspended, or to its end at sleep_until.
Iterate(data) ==
    /\ controller.pc = "top"
    /\ ~controller.panicked
    /\ \E d \in Durations(controller) :
           \E later \in SecondRead(controller, d) :
               controller' = run(controller, data, d, later)
    /\ iteration' = <<data, StatusInputs(controller)>>

\* try_recv returns the oldest Message of controller_rx
TryRecvOk ==
    /\ controller_rx # <<>>
    /\ Iterate(Some(Head(controller_rx)))
    /\ controller_rx' = Tail(controller_rx)
    /\ UNCHANGED <<listener_vars, ticks, channel, eds>>

\* try_recv finds controller_rx empty
TryRecvErr ==
    /\ controller_rx = <<>>
    /\ Iterate(None)
    /\ UNCHANGED <<listener_vars, ticks, channel, controller_rx, eds>>

\* message has been sent on node_tx, and try_recv returns it
Written(message) ==
    /\ controller_rx = <<>>
    /\ Iterate(Some(message))
    /\ UNCHANGED <<listener_vars, ticks, channel, controller_rx, eds>>

\* Written, for at most MaxWrites messages
WrittenOnce(message) ==
    /\ controller_rx = <<>>
    /\ ticks < MaxWrites
    /\ Iterate(Some(message))
    /\ ticks' = ticks + 1
    /\ UNCHANGED <<listener_vars, channel, controller_rx, eds>>

\* The channel to the node, which holds fewer than capacity Messages, takes
\* the Message the controller is sending: self.tx.send(..).await returns,
\* and the iteration runs on to its next send or to its end.
ChannelAccepts(capacity) ==
    /\ controller.out # None
    /\ ~controller.panicked
    /\ Len(channel) < capacity
    /\ \E d \in Durations(controller) :
           \E later \in SecondRead(controller, d) :
               controller' = resume(controller, d, later)
    /\ channel' = Append(channel, controller.out[1])
    /\ UNCHANGED <<listener_vars, ticks, controller_rx, iteration, eds>>

\* The listener has handled a frame that is none of this node's and calls
\* update_controller (line 136)
NodeTakes ==
    /\ listener = "running"
    /\ channel # <<>>
    /\ od' = node_update_controller(od, channel)
    /\ channel' = <<>>
    /\ UNCHANGED <<nmt_state, motor_controller, listener, rx, tx, received,
                   controller, ticks, controller_rx, iteration, eds, turn>>

\* the controller's iterations while the listener serves the bus
ControllerRuns == TryRecvErr \/ ChannelAccepts(ChannelCapacity)

RecvNmt == \E data \in NmtPayloads : Receive(Frame(0, data))

RecvSync == Receive(Frame(128, <<>>))

RecvEmcy == Receive(Frame(128 + NodeId, <<>>))

RecvRpdo ==
    \E n \in 1..4, data \in RpdoPayloads : Receive(Frame((n + 1) * 256 + NodeId, data))

RecvSdo == \E data \in SdoPayloads : Receive(Frame(1536 + NodeId, data))

RecvIgnored == \E frame \in IgnoredFrames : Receive(frame)

Next ==
    \/ RecvNmt \/ RecvSync \/ RecvEmcy \/ RecvRpdo \/ RecvSdo \/ RecvIgnored
    \/ SendReturns \/ UpdateController

Spec == Init /\ [][Next]_vars

\* The listener serves NMT commands, RPDOs and the frames of other nodes
\* while the controller runs.
NextBus ==
    \/ RecvNmt \/ RecvRpdo \/ RecvIgnored
    \/ SendReturns \/ UpdateController \/ ControllerRuns

SpecBus == Init /\ [][NextBus]_vars

----------------------------------------------------------------------------
(* Properties.  The handler of a received frame returns, or panics, in one *)
(* step: rx' is the frame, Before the node as it was when the frame was    *)
(* received, the primed variables the node after the handler, and tx' the  *)
(* frames sent while it ran.                                               *)

\* the step in which the handler of a frame returns or panics
HandlerReturns ==
    /\ listener \in {"running", "sending"}
    /\ listener' \in {"updating", "panicked"}

\* the Node, and the frame received last, when the frame in hand was received
Before ==
    IF turn = <<>>
    THEN [od |-> od, nmt_state |-> nmt_state, motor_controller |-> motor_controller,
          rx |-> rx]
    ELSE turn[2]

Receives(id) == HandlerReturns /\ rx'.id = id

NmtId == 0
SdoRxId == BitOr(1536, NodeId)    \* 0x600 | node id
SdoTxId == BitOr(1408, NodeId)    \* 0x580 | node id
NmtTxId == BitOr(1792, NodeId)    \* 0x700 | node id

\* The table of section 4.3
NmtTable(requested_state) ==
    CASE requested_state = 1 -> "Operational"
      [] requested_state = 2 -> "Stopped"
      [] requested_state = 128 -> "PreOperational"
      [] requested_state \in {129, 130} -> "Initializing"

\* C1: a 2-byte NMT frame [requested_state, addressed_node] addressed to this
\* node leaves the NMT state at the table's entry for requested_state, whatever
\* it was before; addressed to another node it leaves the NMT state unchanged.
\* Node::parse_nmt_command and process_nmt_command of nmt.rs agree on this.
C1_NmtTransition ==
    [][(Receives(NmtId) /\ Len(rx'.data) = 2) =>
          LET requested_state == rx'.data[1]
              addressed_node == rx'.data[2]
          IN  /\ (addressed_node = NodeId /\ requested_state \in {1, 2, 128, 129, 130}) =>
                    /\ nmt_state' = NmtTable(requested_state)
                    /\ process_nmt_command(NodeId, Before.nmt_state, rx'.data)
                           = Ok(NmtTable(requested_state))
              /\ addressed_node # NodeId =>
                    /\ nmt_state' = Before.nmt_state
                    /\ process_nmt_command(NodeId, Before.nmt_state, rx'.data)
                           = Ok(Before.nmt_state)]_vars

\* Stop (0x02), addressed to this node, was received as the second frame and
\* the node is Stopped.
C1_Witness ==
    /\ received = 2
    /\ rx = Frame(NmtId, <<2, NodeId>>)
    /\ nmt_state = "Stopped"

\* The state byte of section 4.3
NmtStateByte(state) ==
    CASE state = "Initializing" -> 0
      [] state = "Stopped" -> 4
      [] state = "Operational" -> 5
      [] state = "PreOperational" -> 127

\* C2: an NMT command addressed to this node with a recognized requested state
\* sends exactly one frame, on 0x700 + node id, with the one byte of the new NMT
\* state, also when the state does not change, and sends it while the command
\* is handled (before the next frame is received); an NMT command addressed to
\* another node sends nothing.
C2_NmtStateFrame ==
    [][(Receives(NmtId) /\ Len(rx'.data) >= 2) =>
          LET requested_state == rx'.data[1]
              addressed_node == rx'.data[2]
          IN  /\ (/\ Len(rx'.data) = 2
                  /\ addressed_node = NodeId
                  /\ requested_state \in {1, 2, 128, 129, 130}) =>
                    /\ tx' = <<Frame(NmtTxId, <<NmtStateByte(NmtTable(requested_state))>>)>>
                    /\ create_nmt_frame(NodeId, nmt_state') = tx'[1]
              /\ addressed_node # NodeId => tx' = <<>>]_vars

\* Reset (0x81) received first, in state Initializing: the state stays
\* Initializing and the frame [0x00] is sent on 0x701.
C2_Witness ==
    /\ received = 1
    /\ rx = Frame(NmtId, <<129, NodeId>>)
    /\ nmt_state = "Initializing"
    /\ tx = <<Frame(1793, <<0>>)>>

\* C3: a malformed NMT frame (a payload of another length than 2, or a
\* requested-state byte outside 0x01, 0x02, 0x80, 0x81, 0x82) changes neither
\* the NMT state nor the OD, sends nothing, and leaves the listener running.
C3_MalformedNmtAbsorbed ==
    [][(/\ Receives(NmtId)
        /\ \/ Len(rx'.data) # 2
           \/ rx'.data[1] \notin {1, 2, 128, 129, 130}) =>
          /\ nmt_state' = Before.nmt_state
          /\ od' = Before.od
          /\ tx' = <<>>
          /\ listener' # "panicked"]_vars

\* The fields of an SDO request
Ccs(data) == (data[1] \div 32) % 8
ReqIndex(data) == data[2] + 256 * data[3]
ReqSubIndex(data) == data[4]

\* The entries of the OD o at (index, sub-index)
EntriesAt(o, index, sub_index) ==
    {i \in 1..Len(o) : o[i].index = index /\ o[i].sub_index = sub_index}

\* The OD o holds an entry with an integer tag at the place the request names
NamesInteger(o, data) ==
    \E i \in EntriesAt(o, ReqIndex(data), ReqSubIndex(data)) :
        o[i].value.tag \in IntegerTags

NamedEntries(o, data) == EntriesAt(o, ReqIndex(data), ReqSubIndex(data))

\* Bytes on the wire of a value of this tag
Width(tag) ==
    CASE tag \in {"Integer8", "Unsigned8"} -> 1
      [] tag \in {"Integer16", "Unsigned16"} -> 2
      [] tag \in {"Integer32", "Unsigned32"} -> 4

\* The value of this tag that the Width(tag) bytes b encode little-endian (an
\* Unsigned32 as its halves <<hi, lo>>)
LeValue(tag, b) ==
    LET signed(x) == IF x >= 128 THEN x - 256 ELSE x
    IN  CASE tag = "Unsigned8" -> b[1]
          [] tag = "Integer8" -> signed(b[1])
          [] tag = "Unsigned16" -> b[2] * 256 + b[1]
          [] tag = "Integer16" -> signed(b[2]) * 256 + b[1]
          [] tag = "Unsigned32" -> <<b[4] * 256 + b[3], b[2] * 256 + b[1]>>
          [] tag = "Integer32" -> ((signed(b[4]) * 256 + b[3]) * 256 + b[2]) * 256 + b[1]

\* The sequence b continued with zeros to n bytes
ZeroPadded(b, n) == [i \in 1..n |-> IF i <= Len(b) THEN b[i] ELSE 0]

\* C4: an SDO upload (ccs = 2) of an existing integer entry is answered on
\* 0x580 + node id with byte 0 = 0b010 in bits 7:5, n in bits 3:2 (3, 2, 0 for
\* 1, 2, 4 bytes), e = 1, s = 1; bytes 1..2 the requested index little-endian,
\* byte 3 the sub-index, bytes 4.. the entry's value little-endian, unused
\* bytes zero.  Node::sdo_response and sdo_response of sdo.rs agree on this.
C4_SdoUploadResponse ==
    [][(/\ Receives(SdoRxId)
        /\ Len(rx'.data) >= 4
        /\ Ccs(rx'.data) = 2
        /\ NamesInteger(Before.od, rx'.data)) =>
          \A p \in NamedEntries(Before.od, rx'.data) :
          LET entry == Before.od[p]
              w == Width(entry.value.tag)
              n == CASE w = 1 -> 3 [] w = 2 -> 2 [] w = 4 -> 0
          IN  /\ Len(tx') = 1
              /\ tx'[1].id = SdoTxId
              /\ Len(tx'[1].data) = 8
              /\ tx'[1].data[1] = 2 * 32 + n * 4 + 2 + 1
              /\ tx'[1].data[2] = entry.index % 256
              /\ tx'[1].data[3] = entry.index \div 256
              /\ tx'[1].data[4] = entry.sub_index
              /\ LeValue(entry.value.tag, SubSeq(tx'[1].data, 5, 4 + w))
                     = entry.value.value
              /\ \A i \in (5 + w)..8 : tx'[1].data[i] = 0
              /\ sdo_response_fn(NodeId, Before.od, rx'.data).result = Ok(tx'[1])]_vars

\* The Integer8 at 0x6060 was set to -128 and then uploaded: the response is
\* [0x4F, 0x60, 0x60, 0x00, 0x80, 0, 0, 0] on 0x581.
C4_Witness ==
    /\ received = 2
    /\ rx = Frame(SdoRxId, <<64, 96, 96, 0, 0, 0, 0, 0>>)
    /\ tx = <<Frame(1409, <<79, 96, 96, 0, 128, 0, 0, 0>>)>>

\* C5: an SDO download (ccs = 1) to an existing integer entry stores bytes 4..7
\* of the request, read little-endian at the width of the entry's own tag
\* (whatever size the header states), changes no other entry, and is answered
\* by exactly one frame on 0x580 + node id: 0x60, the index and sub-index, and
\* four zero bytes.  Node::sdo_response and sdo_response of sdo.rs agree.
C5_SdoDownload ==
    [][(/\ Receives(SdoRxId)
        /\ Len(rx'.data) = 8
        /\ Ccs(rx'.data) = 1
        /\ NamesInteger(Before.od, rx'.data)) =>
          \A p \in NamedEntries(Before.od, rx'.data) :
          LET tag == Before.od[p].value.tag
          IN  /\ Len(od') = Len(Before.od)
              /\ od'[p] = [Before.od[p] EXCEPT !.value.value =
                               LeValue(tag, SubSeq(rx'.data, 5, 4 + Width(tag)))]
              /\ \A i \in 1..Len(Before.od) : i # p => od'[i] = Before.od[i]
              /\ tx' = <<Frame(SdoTxId, <<96, rx'.data[2], rx'.data[3], rx'.data[4],
                                          0, 0, 0, 0>>)>>
              /\ sdo_response_fn(NodeId, Before.od, rx'.data)
                     = [od |-> od', result |-> Ok(tx'[1])]]_vars

\* The request [0x2B, 0x40, 0x60, 0x00, 0x0F, 0, 0, 0] was received: the
\* controlword (position 25 of the OD) is 0x000F and the response is
\* [0x60, 0x40, 0x60, 0x00, 0, 0, 0, 0] on 0x581.
C5_Witness ==
    /\ rx = Frame(SdoRxId, <<43, 64, 96, 0, 15, 0, 0, 0>>)
    /\ od[25].value = [tag |-> "Unsigned16", value |-> 15]
    /\ tx = <<Frame(1409, <<96, 64, 96, 0, 0, 0, 0, 0>>)>>

\* C6: every OD entry has, in every reachable state, the type tag it was
\* seeded with (and the OD its seeded entries, by index and sub-index),
\* whatever bit length the header of an SDO download or the mapping record of
\* an RPDO advertises.
C6_TagsStable ==
    /\ Len(od) = Len(SeedOd)
    /\ \A i \in 1..Len(od) :
          /\ od[i].index = SeedOd[i].index
          /\ od[i].sub_index = SeedOd[i].sub_index
          /\ od[i].value.tag = SeedOd[i].value.tag

\* An SDO download has set the first mapping record of RPDO4 (position 11 of
\* the OD) to 0x60400020, which advertises 32 bits for the Unsigned16
\* controlword, and an RPDO4 frame, received after it, has written the
\* controlword (position 25).
C6_Witness ==
    /\ received = 2
    /\ rx.id = 1280 + NodeId
    /\ listener # "panicked"
    /\ od[11].value.value = <<24640, 32>>
    /\ od[25].value.value # SeedOd[25].value.value

\* C7: an SDO download to an integer entry followed at once by an SDO upload of
\* the same entry returns, in bytes 4.. of the response, the bytes of the
\* downloaded value: the first Width(tag) data bytes of the download request,
\* and zero after them.
C7_SdoRoundTrip ==
    [][(/\ Before.rx.id = SdoRxId
        /\ Len(Before.rx.data) = 8
        /\ Ccs(Before.rx.data) = 1
        /\ NamesInteger(Before.od, Before.rx.data)
        /\ Receives(SdoRxId)
        /\ Len(rx'.data) >= 4
        /\ Ccs(rx'.data) = 2
        /\ ReqIndex(rx'.data) = ReqIndex(Before.rx.data)
        /\ ReqSubIndex(rx'.data) = ReqSubIndex(Before.rx.data)) =>
          \A p \in NamedEntries(Before.od, Before.rx.data) :
          LET w == Width(Before.od[p].value.tag)
          IN  /\ Len(tx') = 1
              /\ SubSeq(tx'[1].data, 5, 8) = ZeroPadded(SubSeq(Before.rx.data, 5, 4 + w), 4)]_vars

\* The Integer16 at 0x6071 was set to its smallest value (bytes 0x00 0x80) and
\* then uploaded: the response carries 0x00 0x80.
C7_Witness ==
    /\ received = 2
    /\ rx = Frame(SdoRxId, <<64, 113, 96, 0, 0, 0, 0, 0>>)
    /\ tx = <<Frame(1409, <<75, 113, 96, 0, 0, 128, 0, 0>>)>>

\* C8: an SDO upload or download request that names an (index, sub-index)
\* absent from the OD, or an entry tagged Boolean, Real32 or Unknown, or whose
\* payload is not 8 bytes long, is not answered and changes no OD entry.
C8_SdoRejectedSilently ==
    [][(/\ Receives(SdoRxId)
        /\ Len(rx'.data) >= 1
        /\ Ccs(rx'.data) \in {1, 2}
        /\ (Len(rx'.data) # 8 \/ ~NamesInteger(Before.od, rx'.data))) =>
          (tx' = <<>> /\ od' = Before.od)]_vars

\* C9: an SDO request whose client command specifier is neither 1 nor 2
\* changes no OD entry and is not answered on 0x580 + node id.
C9_SdoUnknownCommandIgnored ==
    [][(/\ Receives(SdoRxId)
        /\ Len(rx'.data) >= 1
        /\ Ccs(rx'.data) \notin {1, 2}) =>
          (/\ od' = Before.od
           /\ \A i \in 1..Len(tx') : tx'[i].id # SdoTxId)]_vars

\* The COB-ID of RPDO n for this node: 0x200, 0x300, 0x400, 0x500 + node id
RpdoId(n) == 256 * (n + 1) + NodeId

\* The value of the OD entry at (index, sub-index)
ValueAt(o, index, sub_index) ==
    o[CHOOSE i \in EntriesAt(o, index, sub_index) : TRUE].value.value

\* Mapping record i of RPDO n, its width in bytes, and the offset of its bytes
\* in the payload: the sum of the widths of the records before it
MappingRecord(o, n, i) == ValueAt(o, 5632 + (n - 1), i)
RecordWidth(record) == (record[2] % 256) \div 8
RECURSIVE RecordOffset(_, _, _)
RecordOffset(o, n, i) ==
    IF i = 1 THEN 0
    ELSE RecordOffset(o, n, i - 1) + RecordWidth(MappingRecord(o, n, i - 1))

\* C10: when RPDO n arrives with a payload that covers all its mapping records,
\* the target of record i holds afterwards the little-endian value of the
\* payload bytes from the record's offset on, under the target's own tag.
C10_RpdoRecordOffsets ==
    [][\A n \in 1..4 :
         LET count == ValueAt(Before.od, 5632 + (n - 1), 0)
         IN  (/\ Receives(RpdoId(n))
              /\ Len(rx'.data) >= RecordOffset(Before.od, n, count + 1)) =>
                \A i \in 1..count :
                    \A p \in EntriesAt(Before.od, MappingRecord(Before.od, n, i)[1],
                                       MappingRecord(Before.od, n, i)[2] \div 256) :
                    LET record == MappingRecord(Before.od, n, i)
                        offset == RecordOffset(Before.od, n, i)
                    IN  od'[p].value =
                            [tag |-> Before.od[p].value.tag,
                             value |-> LeValue(Before.od[p].value.tag,
                                               SubSeq(rx'.data, offset + 1,
                                                      offset + RecordWidth(record)))]]_vars

\* C11: when RPDO n arrives with a payload shorter than the total width of
\* its mapping, the records the payload covers in full are applied, the
\* targets of the other records keep their values, and the listener goes on.
C11_RpdoShortPayload ==
    [][\A n \in 1..4 :
         LET count == ValueAt(Before.od, 5632 + (n - 1), 0)
         IN  (/\ Receives(RpdoId(n))
              /\ Len(rx'.data) < RecordOffset(Before.od, n, count + 1)) =>
                /\ listener' # "panicked"
                /\ \A i \in 1..count :
                     \A p \in EntriesAt(Before.od, MappingRecord(Before.od, n, i)[1],
                                        MappingRecord(Before.od, n, i)[2] \div 256) :
                       LET record == MappingRecord(Before.od, n, i)
                           offset == RecordOffset(Before.od, n, i)
                           width == RecordWidth(record)
                       IN  IF offset + width <= Len(rx'.data)
                           THEN od'[p].value =
                                  [tag |-> Before.od[p].value.tag,
                                   value |-> LeValue(Before.od[p].value.tag,
                                                     SubSeq(rx'.data, offset + 1,
                                                            offset + width))]
                           ELSE od'[p] = Before.od[p]]_vars

----------------------------------------------------------------------------
(* PDO traffic over several object dictionaries.  The OD is read from the  *)
(* drive's EDS file, so the PDO configuration is an input of the node: the *)
(* listener is started on each of the dictionaries below and receives RPDO *)
(* and SYNC frames.                                                        *)

\* SeedOd with TPDO 7 configured: 0x1807 (enabled, transmission type 255) and
\* 0x1A07 mapping the statusword
SeedTpdo7 ==
    SubSeq(SeedOd, 1, 16)
    \o <<Var(6151, 1, "Unsigned32", <<0, 449>>),      \* 0x1807 sub 1 = 0x000001C1
         Var(6151, 2, "Unsigned8", 255)>>             \* 0x1807 sub 2
    \o SubSeq(SeedOd, 17, 21)
    \o <<Var(6663, 0, "Unsigned8", 1),                \* 0x1A07 sub 0
         Var(6663, 1, "Unsigned32", <<24641, 16>>)>>  \* 0x1A07 sub 1 = 0x60410010
    \o SubSeq(SeedOd, 22, Len(SeedOd))

\* SeedOd with the mapping of TPDO 0 set to the cells of RPDO1 and RPDO4:
\* 0x1A00 = {0x60400010, 0x607A0020}
SeedRoundTrip ==
    [SeedOd EXCEPT ![18].value.value = <<24640, 16>>,
                   ![19].value.value = <<24698, 32>>]

\* SeedOd with TPDO 0 disabled (bit 31 of 0x1800 sub 1 set), TPDO 1 of
\* transmission type 255 mapping 0x60C2 sub 1 (8 bits), the statusword at a
\* bit length of 8 and the absent entry 0x2FFF sub 0; 0x60C2 has a second
\* sub-index, the Integer8 interpolation time index
SeedSharedIndex ==
    [SubSeq(SeedOd, 1, 21) EXCEPT ![13].value.value = <<32768, 385>>,
                                  ![16].value.value = 255,
                                  ![20].value.value = 3,
                                  ![21].value.value = <<24770, 264>>]
    \o <<Var(6657, 2, "Unsigned32", <<24641, 8>>),    \* 0x1A01 sub 2 = 0x60410008
         Var(6657, 3, "Unsigned32", <<12287, 16>>)>>  \* 0x1A01 sub 3 = 0x2FFF0010
    \o SubSeq(SeedOd, 22, Len(SeedOd))
    \o <<Var(24770, 2, "Integer8", -3)>>              \* 0x60C2 sub 2

\* SeedOd with TPDO 1 of transmission type 255 as well: a SYNC is answered
\* with TPDO 0 and TPDO 1
SeedTwoTpdos == [SeedOd EXCEPT ![16].value.value = 255]

\* SeedOd with 255 mapping records announced for TPDO 0 (0x1A00 sub 0 = 255)
SeedEntries255 == [SeedOd EXCEPT ![17].value.value = 255]

PdoSeeds ==
    {SeedOd, SeedTpdo7, SeedRoundTrip, SeedSharedIndex, SeedTwoTpdos, SeedEntries255}

InitPdo ==
    /\ od \in PdoSeeds
    /\ nmt_state = "Initializing"
    /\ motor_controller = NodeMotorController
    /\ listener = "running"
    /\ rx = NoFrame
    /\ tx = <<>>
    /\ received = 0
    /\ controller = initialize
    /\ ticks = 0
    /\ channel = <<>>
    /\ controller_rx = <<>>
    /\ eds = <<>>
    /\ iteration = <<>>
    /\ turn = <<>>

NextPdo == RecvSync \/ RecvRpdo \/ SendReturns \/ UpdateController

SpecPdo == InitPdo /\ [][NextPdo]_vars

\* The COB-ID of SYNC, and of TPDO k of this node: 0x180 + k * 0x100 + node id
SyncId == 128
TpdoId(k) == BitOr(384 + k * 256, NodeId)

HasEntry(o, index, sub_index) == EntriesAt(o, index, sub_index) # {}

\* The positions in a sequence of frames of those sent on id
FramesOn(frames, id) == {i \in 1..Len(frames) : frames[i].id = id}

\* TPDO k qualifies for emission: bit 31 of 0x1800+k sub 1 is 0 and the
\* transmission type in 0x1800+k sub 2 is 1
TpdoQualifies(o, k) ==
    /\ HasEntry(o, 6144 + k, 1)
    /\ HasEntry(o, 6144 + k, 2)
    /\ ValueAt(o, 6144 + k, 1)[1] < 32768
    /\ ValueAt(o, 6144 + k, 2) = 1

\* C12: on a SYNC frame, a frame for TPDO k (k in 0..7) is emitted if and only
\* if TPDO k is enabled and its transmission type is 1.
C12_TpdoEmittedIffTypeOne ==
    [][Receives(SyncId) =>
         \A k \in 0..7 :
             (FramesOn(tx', TpdoId(k)) # {}) <=> TpdoQualifies(Before.od, k)]_vars

\* C13: handling a SYNC never faults, and every TPDO k in 0..7 that qualifies
\* gets exactly one frame, on the 11-bit identifier 0x180 + k * 0x100 + node id.
C13_TpdoOneFramePerSync ==
    [][Receives(SyncId) =>
         /\ listener' # "panicked"
         /\ \A k \in 0..7 :
                TpdoQualifies(Before.od, k) =>
                    /\ TpdoId(k) <= 2047
                    /\ Cardinality(FramesOn(tx', TpdoId(k))) = 1]_vars

\* The bytes of a value of this tag, little-endian at the tag's width
LeBytes(tag, v) ==
    CASE tag \in {"Unsigned8", "Integer8"} -> <<v % 256>>
      [] tag \in {"Unsigned16", "Integer16"} -> <<v % 256, (v \div 256) % 256>>
      [] tag = "Integer32" ->
           <<v % 256, (v \div 256) % 256, (v \div 65536) % 256, (v \div 16777216) % 256>>
      [] tag = "Unsigned32" ->
           <<v[2] % 256, v[2] \div 256, v[1] % 256, v[1] \div 256>>

\* The bytes one mapping record contributes to a TPDO: the value of the entry
\* at the record's (index, sub-index) when its tag has the record's bit length
TpdoCellBytes(o, record) ==
    LET index == record[1]
        sub_index == record[2] \div 256
        bits == record[2] % 256
    IN  IF ~HasEntry(o, index, sub_index) THEN <<>>
        ELSE LET v == o[CHOOSE i \in EntriesAt(o, index, sub_index) : TRUE].value
             IN  IF v.tag \in IntegerTags /\ Width(v.tag) * 8 = bits
                 THEN LeBytes(v.tag, v.value)
                 ELSE <<>>

\* The payload of TPDO k: its mapping records sub .. count in ascending order
RECURSIVE TpdoPayload(_, _, _, _)
TpdoPayload(o, k, sub, count) ==
    IF sub > count THEN <<>>
    ELSE (IF HasEntry(o, 6656 + k, sub)
          THEN TpdoCellBytes(o, ValueAt(o, 6656 + k, sub))
          ELSE <<>>)
         \o TpdoPayload(o, k, sub + 1, count)

\* C14: the payload of an emitted TPDO k is the concatenation, in ascending
\* mapping sub-index, of one value per mapping record: the value of the entry
\* at the record's (index, sub-index), little-endian at the record's width.
C14_TpdoPayload ==
    [][Receives(SyncId) =>
         \A k \in 0..7 :
             \A i \in FramesOn(tx', TpdoId(k)) :
                 tx'[i].data = TpdoPayload(Before.od, k, 1, ValueAt(Before.od, 6656 + k, 0))]_vars

\* The mapping records of RPDO n and of TPDO k that the OD holds, as sets
RpdoCells(o, n) ==
    {MappingRecord(o, n, i) :
        i \in {j \in 1..ValueAt(o, 5632 + (n - 1), 0) : HasEntry(o, 5632 + (n - 1), j)}}
TpdoCells(o, k) ==
    {ValueAt(o, 6656 + k, sub) :
        sub \in {j \in 1..ValueAt(o, 6656 + k, 0) : HasEntry(o, 6656 + k, j)}}

\* The bytes of the payload p of RPDO n that belong to the mapping record
RpdoBytesOf(o, n, p, record) ==
    LET i == CHOOSE j \in 1..ValueAt(o, 5632 + (n - 1), 0) :
                 MappingRecord(o, n, j) = record
    IN  SubSeq(p, RecordOffset(o, n, i) + 1,
               RecordOffset(o, n, i) + RecordWidth(record))

\* The payload p of RPDO n rearranged in the order of the mapping of TPDO k
RECURSIVE Rearranged(_, _, _, _, _, _)
Rearranged(o, n, p, k, sub, count) ==
    IF sub > count THEN <<>>
    ELSE RpdoBytesOf(o, n, p, ValueAt(o, 6656 + k, sub))
         \o Rearranged(o, n, p, k, sub + 1, count)

\* C15: an RPDO n with payload p followed at once by a SYNC, where TPDO k maps
\* the same cells at the same widths as RPDO n: the TPDO k emitted carries p,
\* up to the order of the cells.
C15_TpdoRoundTrip ==
    [][\A n \in 1..4, k \in 0..1 :
         (/\ Before.rx.id = RpdoId(n)
          /\ Len(Before.rx.data) = RecordOffset(Before.od, n, ValueAt(Before.od, 5632 + (n - 1), 0) + 1)
          /\ Receives(SyncId)
          /\ Cardinality(RpdoCells(Before.od, n)) = ValueAt(Before.od, 5632 + (n - 1), 0)
          /\ Cardinality(TpdoCells(Before.od, k)) = ValueAt(Before.od, 6656 + k, 0)
          /\ RpdoCells(Before.od, n) = TpdoCells(Before.od, k)) =>
             \A i \in FramesOn(tx', TpdoId(k)) :
                 tx'[i].data = Rearranged(Before.od, n, Before.rx.data, k, 1,
                                          ValueAt(Before.od, 6656 + k, 0))]_vars

----------------------------------------------------------------------------
(* Traffic for other nodes.                                                *)

\* C16: a frame whose COB-ID carries a node id that is neither 0 nor this
\* node's, and an NMT command (a payload of a command byte and a node id)
\* addressed to another node, change nothing: the OD, the NMT state and the
\* drive state of the Node stay as they are, no frame is sent, and the
\* listener keeps running.
C16_ForeignTrafficIgnored ==
    [][(/\ HandlerReturns
        /\ \/ rx'.id % 128 \notin {0, NodeId}
           \/ /\ rx'.id = NmtId
              /\ Len(rx'.data) >= 2
              /\ rx'.data[2] # NodeId) =>
          /\ od' = Before.od
          /\ nmt_state' = Before.nmt_state
          /\ motor_controller' = Before.motor_controller
          /\ tx' = <<>>
          /\ listener' # "panicked"]_vars

----------------------------------------------------------------------------
(* The controller task.                                                    *)

\* writes of the objects update_variable decodes
WriteControlword(v) == construct_set_message(24640, 0, DataValue("Unsigned16", v))
WriteMode(v) == construct_set_message(24672, 0, DataValue("Integer8", v))
WriteVelocity(v) == construct_set_message(24705, 0, DataValue("Unsigned32", <<0, v>>))
WriteAcceleration(v) == construct_set_message(24707, 0, DataValue("Unsigned32", <<0, v>>))
WriteMaxAcceleration(v) == construct_set_message(24773, 0, DataValue("Unsigned32", <<0, v>>))
WriteTarget(v) == construct_set_message(24698, 0, DataValue("Integer32", v))

\* The step in which an iteration of run begins, and what its try_recv
\* returns.  (An iteration that changes nothing and receives what the one
\* before received is a stuttering step.)
Begins ==
    /\ controller.pc = "top"
    /\ <<controller, iteration>>' # <<controller, iteration>>

Received == iteration'[1]

\* the step in which the send of line `at` returns
Resumes(at) == controller.pc = at /\ controller' # controller

\* a step of the controller task
ControllerSteps == <<controller, iteration>>' # <<controller, iteration>>

\* An iteration of run has ended: the task is at sleep_until, or at the
\* try_recv of the next iteration.
AfterTick == iteration # <<>> /\ controller.pc = "top" /\ ~controller.panicked

\* the step in which update_controller (line 200) is called, from the loop
\* of run, or once the send of parse_mode_of_operation has returned
CallsUpdate ==
    \/ Begins /\ controller'.pc # "491" /\ ~controller'.panicked
    \/ Resumes("491")

\* the controller of a step that calls update_controller, at the call of
\* update_operation: update_state has stepped the drive state
Mid ==
    IF controller.pc = "491"
    THEN update_state([controller EXCEPT !.out = None, !.pc = "top"])
    ELSE BeforeOperation(controller, Received)

\* the step in which set_statusword is called: the iteration has come to
\* its end, or to the send of set_statusword
CallsStatusword ==
    /\ ControllerSteps
    /\ controller.pc # "565"
    /\ ~controller'.panicked
    /\ controller'.pc \in {"565", "top"}

\* the controlwords written to the drive: Shutdown, SwitchOn,
\* EnableOperation, DisableVoltage, QuickStop, FaultReset, EnableOperation
\* with bit 4, with bits 4 and 6, and with bit 8 (halt)
DriveControlwords == {6, 7, 15, 0, 2, 128, 31, 95, 271}

DriveMessages ==
    {WriteControlword(v) : v \in DriveControlwords}
    \cup {construct_get_message(24641, 0)}

\* The controller from its construction on, its controlword written at
\* will, next to a node that serves a busy bus.
NextDrive ==
    \/ \E message \in DriveMessages : Written(message)
    \/ TryRecvErr
    \/ ChannelAccepts(MaxWaiting)
    \/ NodeTakes

SpecDrive == Init /\ [][NextDrive]_vars

\* the controlwords written to 0x6040 next to the modes
TickControlwords == {6, 7, 15, 0, 2, 128, 31}

\* the modes written to 0x6060; 2 is not a mode of ModeOfOperation
TickModes == {6, 2}

\* the Messages the controller finds in its channel: writes of the
\* controlword and of the mode, and a get message
ControllerMessages ==
    {WriteControlword(v) : v \in TickControlwords}
    \cup {WriteMode(v) : v \in TickModes}
    \cup {construct_get_message(24641, 0)}

\* The controller from its construction on, its controlword and its mode
\* written at will, with time passing.
NextMc ==
    \/ \E message \in ControllerMessages : Written(message)
    \/ TryRecvErr
    \/ ChannelAccepts(MaxWaiting)
    \/ NodeTakes

SpecMc == Init /\ [][NextMc]_vars

----------------------------------------------------------------------------
(* Decoding of the controlword.                                            *)

\* every value a controlword can take
Controlwords == 0..65535

\* update_variable is given a write of 0x6040 by a controller that has not
\* decoded a controlword yet
ParseControlword ==
    /\ controller = initialize
    /\ ticks = 0
    /\ \E value \in Controlwords :
           controller' = update_variable(controller,
                             SetMessage(24640, 0, DataValue("Unsigned16", value)))
    /\ UNCHANGED <<listener_vars, ticks, channel, controller_rx, iteration, eds>>

SpecCw == Init /\ [][ParseControlword]_vars

\* the command the decoding table gives for the bits 7, 3, 2, 1, 0, "None"
\* when no row matches
TableCommand(b7, b3, b2, b1, b0) ==
    IF b7 = 1 THEN "FaultReset"
    ELSE IF b1 = 0 THEN "DisableVoltage"
    ELSE IF b2 = 0 THEN "QuickStop"
    ELSE IF b0 = 0 THEN "Shutdown"
    ELSE IF b3 = 0 THEN "SwitchOn"
    ELSE IF b3 = 1 THEN "EnableOperation"
    ELSE "None"

Bit(value, i) == (value \div 2^i) % 2

\* C17: the command decoded from a controlword is the one the table gives for
\* its bits 7, 3, 2, 1, 0 alone: FaultReset when bit 7 is 1; with bit 7 = 0,
\* DisableVoltage when bit 1 is 0, QuickStop when bit 1 is 1 and bit 2 is 0,
\* Shutdown for bits 2..0 = 110, SwitchOn for bits 3..0 = 0111,
\* EnableOperation for bits 3..0 = 1111; None is never the result, since
\* every controlword matches a row.
C17_ControlwordDecoding ==
    controller # initialize =>
        /\ controller.command =
               TableCommand(Bit(controller.controlword, 7), Bit(controller.controlword, 3),
                            Bit(controller.controlword, 2), Bit(controller.controlword, 1),
                            Bit(controller.controlword, 0))
        /\ controller.command # "None"

\* 0x7F6F: bits 3..0 = 1111 and bit 7 = 0 among set bits the table does not
\* look at
C17_Witness ==
    /\ controller.controlword = 32623
    /\ controller.command = "EnableOperation"

----------------------------------------------------------------------------
(* The drive state machine.                                                *)

\* update_state on every pair of a drive state and a command
InitSt ==
    /\ od = SeedOd
    /\ nmt_state = "Initializing"
    /\ motor_controller = NodeMotorController
    /\ listener = "running"
    /\ rx = NoFrame
    /\ tx = <<>>
    /\ received = 0
    /\ controller \in {[initialize EXCEPT !.state = s, !.command = c] :
                          s \in States, c \in Commands}
    /\ ticks = 0
    /\ channel = <<>>
    /\ controller_rx = <<>>
    /\ eds = <<>>
    /\ iteration = <<>>
    /\ turn = <<>>

UpdateState ==
    /\ ticks = 0
    /\ controller' = update_state(controller)
    /\ ticks' = 1
    /\ UNCHANGED <<listener_vars, channel, controller_rx, iteration, eds>>

SpecSt == InitSt /\ [][UpdateState]_vars

\* the rows of the transition table that name a command
TransitionTable ==
    {<<"SwitchedOnDisabled", "Shutdown", "ReadyToSwitchOn">>,
     <<"ReadyToSwitchOn", "SwitchOn", "SwitchedOn">>,
     <<"ReadyToSwitchOn", "DisableVoltage", "SwitchedOnDisabled">>,
     <<"SwitchedOn", "EnableOperation", "OperationEnabled">>,
     <<"SwitchedOn", "Shutdown", "ReadyToSwitchOn">>,
     <<"OperationEnabled", "QuickStop", "QuickStopActive">>,
     <<"OperationEnabled", "DisableVoltage", "SwitchedOnDisabled">>,
     <<"OperationEnabled", "SwitchOn", "SwitchedOn">>,
     <<"QuickStopActive", "DisableVoltage", "SwitchedOnDisabled">>,
     <<"QuickStopActive", "EnableOperationAfterQuickStop", "OperationEnabled">>,
     <<"Fault", "FaultReset", "SwitchedOnDisabled">>}

\* the drive state the table gives after state under command
TableState(state, command) ==
    IF state = "NotReadyToSwitchOn" THEN "SwitchedOnDisabled"
    ELSE IF state = "FaultReactionActive" THEN "Fault"
    ELSE IF \E row \in TransitionTable : row[1] = state /\ row[2] = command
    THEN (CHOOSE row \in TransitionTable : row[1] = state /\ row[2] = command)[3]
    ELSE state

\* C18: at every tick the drive state becomes the one the transition table
\* gives for the drive state before the tick and the command in effect at the
\* tick: the target of the row for a listed (state, command) pair and of the
\* two automatic steps, and the unchanged state for every other pair,
\* command None included.
C18_TransitionTable ==
    [][(ticks' = ticks + 1 /\ ~controller'.panicked) =>
          controller'.state = TableState(controller.state, controller'.command)]_vars

\* update_state has acted on (OperationEnabled, SwitchOn)
C18_Witness ==
    /\ ticks = 1
    /\ controller.state = "SwitchedOn"
    /\ controller.command = "SwitchOn"
    /\ controller.controlword = 0

----------------------------------------------------------------------------
(* The statusword.                                                         *)

\* The state coding of CiA-402: for each drive state the bits of the
\* statusword that encode it (a mask over bits 0..6) and their values.
\* Bit 4 (voltage enabled) encodes no state, and bit 5 (quick stop) none of
\* NotReadyToSwitchOn, SwitchedOnDisabled, FaultReactionActive and Fault.
StateCoding(state) ==
    CASE state = "NotReadyToSwitchOn" -> [mask |-> 79, bits |-> 0]      \* x0xx 0000
      [] state = "SwitchedOnDisabled" -> [mask |-> 79, bits |-> 64]     \* x1xx 0000
      [] state = "ReadyToSwitchOn" -> [mask |-> 111, bits |-> 33]       \* x01x 0001
      [] state = "SwitchedOn" -> [mask |-> 111, bits |-> 35]            \* x01x 0011
      [] state = "OperationEnabled" -> [mask |-> 111, bits |-> 39]      \* x01x 0111
      [] state = "QuickStopActive" -> [mask |-> 111, bits |-> 7]        \* x00x 0111
      [] state = "FaultReactionActive" -> [mask |-> 79, bits |-> 15]    \* x0xx 1111
      [] state = "Fault" -> [mask |-> 79, bits |-> 8]                   \* x0xx 1000

\* statusword encodes state
Encodes(statusword, state) ==
    \A i \in 0..6 :
        Bit(StateCoding(state).mask, i) = 1 =>
            Bit(statusword, i) = Bit(StateCoding(state).bits, i)

\* C20: after every tick, bits 0..6 of the statusword encode the drive state
\* per the state coding of CiA-402 and encode no other state (OperationEnabled
\* reads 0x27 in bits 0..6), bit 10 equals target_reached, bit 12 equals
\* status_oms1 and bit 13 equals status_oms2.
C20_Statusword ==
    AfterTick =>
        /\ Encodes(controller.status.statusword, controller.state)
        /\ \A other \in States \ {controller.state} :
               ~Encodes(controller.status.statusword, other)
        /\ controller.state = "OperationEnabled" =>
               controller.status.statusword % 128 = 39
        /\ (Bit(controller.status.statusword, 10) = 1) <=> controller.target_reached
        /\ (Bit(controller.status.statusword, 12) = 1) <=> controller.status_oms1
        /\ (Bit(controller.status.statusword, 13) = 1) <=> controller.status_oms2

\* a homing run has ended in OperationEnabled: the iteration that ended it
\* has sent the statusword 0x1427, 0x27 with bits 10 and 12, the channel has
\* taken it, and the iteration has ended
C20_Witness ==
    /\ AfterTick
    /\ controller.state = "OperationEnabled"
    /\ controller.mode_of_operation = "Homing"
    /\ controller.target_reached
    /\ controller.status_oms1
    /\ controller.status.statusword = 5159
    /\ controller.sent # <<>>

----------------------------------------------------------------------------
(* Writes of the statusword.                                               *)

\* a message is a write to 0x6041, the statusword
IsStatuswordWrite(message) ==
    message.set_message # None /\ message.set_message[1].index = 24641

\* the writes to 0x6041 among the Messages the controller has sent in its
\* iteration
StatuswordWrites(self) == SelectSeq(self.sent, IsStatuswordWrite)

\* C31: a tick issues a write of the statusword to 0x6041 exactly if the
\* statusword differs from the one issued last, the one the controller held
\* when set_statusword was called; the write, the only one of the tick,
\* carries the new statusword; and a tick that leaves the drive state and the
\* three flags as they were at its start issues no statusword write.
C31_StatuswordWrittenOnChange ==
    [][CallsStatusword =>
          /\ controller'.pc = "565" <=>
                 controller'.status.statusword # controller.status.statusword
          /\ StatuswordWrites(controller') =
                 IF controller'.pc = "565"
                 THEN <<construct_set_message(24641, 0,
                            DataValue("Unsigned16", controller'.status.statusword))>>
                 ELSE <<>>
          /\ controller'.pc = "565" => controller'.out = Some(Head(StatuswordWrites(controller')))
          /\ StatusInputs(controller') = iteration'[2] => controller'.pc = "top"]_vars

\* the enabled drive has gone through an iteration that began and ended in
\* OperationEnabled with the same flags, and has issued no write of the
\* statusword
C31_Witness ==
    /\ AfterTick
    /\ controller.state = "OperationEnabled"
    /\ iteration[2] = StatusInputs(controller)
    /\ controller.status.statusword % 128 = 39
    /\ controller.sent = <<>>

----------------------------------------------------------------------------
(* Writes of the mode of operation.                                        *)

\* the Int8 values written to 0x6060 that are not a mode of the drive
UnknownModes == {value \in TickModes : value \notin {0, 1, 3, 6}}

\* C29: an iteration that receives a write to 0x6060 of an Int8 value other
\* than 0, 1, 3 and 6 does not end the controller and leaves the mode of
\* operation as it was.
C29_UnknownModeIgnored ==
    [][(Begins /\ \E value \in UnknownModes : Received = Some(WriteMode(value))) =>
          /\ ~controller'.panicked
          /\ controller'.mode_of_operation = controller.mode_of_operation]_vars

----------------------------------------------------------------------------
(* Leaving QuickStopActive.                                                *)

\* the controller after a write of the controlword and the update_state of
\* the tick that receives it
AfterControlword(self, value) ==
    update_state(parse_controlword(self, DataValue("Unsigned16", value)))

\* C35: whenever the drive is in QuickStopActive, some controlword value
\* decodes to the command EnableOperationAfterQuickStop, and the tick that
\* receives it takes the drive to OperationEnabled.
C35_QuickStopRecovery ==
    controller.state = "QuickStopActive" =>
        \E value \in Controlwords :
            \E after \in {AfterControlword(controller, value)} :
                /\ after.command = "EnableOperationAfterQuickStop"
                /\ after.state = "OperationEnabled"

----------------------------------------------------------------------------
(* The statusword and the history of the drive.                            *)

\* the statusword the rows of set_statusword give from the word last, for
\* the drive state and the three flags of self
Assembled(last, self) ==
    set_bit_16(set_bit_16(set_bit_16(
        set_bits(last, bit_configs(self.state)),
        10, self.target_reached), 12, self.status_oms1), 13, self.status_oms2)

\* C38: after every tick the statusword is a function of the drive state,
\* target_reached, status_oms1 and status_oms2 alone: it is the word the row
\* of the drive state and the three flags give from the cleared statusword
\* the controller starts with, whatever statusword was issued before.
C38_StatuswordOfStateAndFlags ==
    AfterTick => controller.status.statusword = Assembled(0, controller)

----------------------------------------------------------------------------
(* The fault states and NotReadyToSwitchOn.                                *)

\* C40: starting from NotReadyToSwitchOn, no sequence of controlword writes
\* and ticks brings the drive to FaultReactionActive or Fault, and
\* NotReadyToSwitchOn is left by the update_state of the first tick and never
\* entered again.
C40_NoFaultNoReturn ==
    /\ controller.state \notin {"FaultReactionActive", "Fault"}
    /\ iteration # <<>> => controller.state # "NotReadyToSwitchOn"

\* the drive has been enabled and stopped, and the iteration that received
\* FaultReset has left it in QuickStopActive
C40_Witness ==
    /\ AfterTick
    /\ controller.state = "QuickStopActive"
    /\ controller.command = "FaultReset"
    /\ iteration = <<Some(WriteControlword(128)),
                     <<"QuickStopActive", FALSE, FALSE, FALSE>>>>

----------------------------------------------------------------------------
(* The enabled drive: the modes of operation.                              *)

\* the target position written to 0x607A
Target == 20

\* the four parameters of a move
MoveParameters(max_acceleration, acceleration, velocity, target) ==
    <<WriteMaxAcceleration(max_acceleration), WriteAcceleration(acceleration),
      WriteVelocity(velocity), WriteTarget(target)>>

\* the messages of the start-up: the mode, the parameters of a move, and the
\* controlwords of Shutdown, SwitchOn and EnableOperation
StartUp(mode, max_acceleration, acceleration, velocity, target) ==
    <<WriteMode(mode)>>
    \o MoveParameters(max_acceleration, acceleration, velocity, target)
    \o <<WriteControlword(6), WriteControlword(7), WriteControlword(15)>>

\* The two tasks are started with the OD seed and with the Messages of one of
\* scripts waiting in controller_rx: the node has sent them before the
\* controller's first try_recv.  factors holds the values of
\* general.speed_factor.
StartedWith(seed, scripts, factors) ==
    /\ od = seed
    /\ nmt_state = "Initializing"
    /\ motor_controller = NodeMotorController
    /\ listener = "running"
    /\ rx = NoFrame
    /\ tx = <<>>
    /\ received = 0
    /\ controller \in {[initialize EXCEPT !.speed_factor = f] : f \in factors}
    /\ ticks = 0
    /\ channel = <<>>
    /\ controller_rx \in scripts
    /\ iteration = <<>>
    /\ eds = <<>>
    /\ turn = <<>>

Started(scripts, factors) == StartedWith(SeedOd, scripts, factors)

\* the max acceleration, profile acceleration and profile velocity of the
\* start-up: all valid, a profile acceleration of 0 (the max acceleration
\* takes its place), a max acceleration of 0, both accelerations 0, and a
\* profile velocity of 0
StartUpParameters ==
    {<<50, 50, 100>>, <<50, 0, 100>>, <<0, 50, 100>>, <<0, 0, 100>>, <<50, 50, 0>>}

\* What the node sends the controller in ProfilePosition mode: the start-up
\* and a start (controlword 0x1F) with each set of parameters; after a start
\* the parameters of a second move to the same target; after a refused start
\* the controlword 0x0F and a valid max acceleration; after a start the
\* controlword of DisableVoltage and the mode ProfileVelocity; and the
\* start-up in Homing mode.
PpScripts ==
    {StartUp(1, p[1], p[2], p[3], Target) \o <<WriteControlword(31)>> :
        p \in StartUpParameters}
    \cup {StartUp(1, 50, 50, 100, Target) \o <<WriteControlword(31)>>
              \o MoveParameters(50, 50, 100, Target),
          StartUp(1, 0, 0, 100, Target)
              \o <<WriteControlword(31), WriteControlword(15),
                   WriteMaxAcceleration(50)>>,
          StartUp(1, 50, 50, 100, Target)
              \o <<WriteControlword(31), WriteControlword(0), WriteMode(3)>>,
          StartUp(6, 50, 50, 100, Target)}

InitPp == Started(PpScripts, {1})

\* the Messages written to the controller after those: the controlwords
\* EnableOperation, EnableOperation with bit 4 and DisableVoltage, the four
\* modes, and the parameters of a move
PpMessages ==
    {WriteControlword(15), WriteControlword(31), WriteControlword(0),
     WriteMode(0), WriteMode(1), WriteMode(3), WriteMode(6)}
    \cup {MoveParameters(50, 50, 100, Target)[i] : i \in 1..4}

NextPp ==
    \/ \E message \in PpMessages : WrittenOnce(message)
    \/ TryRecvOk
    \/ TryRecvErr
    \/ ChannelAccepts(MaxWaiting)
    \/ NodeTakes

SpecPp == InitPp /\ [][NextPp]_vars

\* What the node sends the controller for two moves: the start-up and a
\* start, then the parameters of the second move, the controlword 0x0F, and a
\* start with bit 6 (relative) for the target 5, or without it for -20.
RelScripts ==
    {StartUp(1, 50, 50, 100, Target) \o <<WriteControlword(31)>>
         \o MoveParameters(50, 50, 100, 5)
         \o <<WriteControlword(15), WriteControlword(95)>>,
     StartUp(1, 50, 50, 100, Target) \o <<WriteControlword(31)>>
         \o MoveParameters(50, 50, 100, -20)
         \o <<WriteControlword(15), WriteControlword(31)>>}

InitRel == Started(RelScripts, {1, 2})

NextScripted ==
    \/ TryRecvOk
    \/ TryRecvErr
    \/ ChannelAccepts(MaxWaiting)
    \/ NodeTakes

SpecRel == InitRel /\ [][NextScripted]_vars

\* the controlwords that lead the drive to SwitchedOnDisabled,
\* ReadyToSwitchOn, SwitchedOn, OperationEnabled and (by QuickStop, 0x02)
\* QuickStopActive, one state per prefix; none for NotReadyToSwitchOn, the
\* state the controller is constructed in; and those that lead back to
\* SwitchedOnDisabled (by DisableVoltage, 0x00) from ReadyToSwitchOn
SeqPrefixes ==
    {<<>>,
     <<WriteControlword(0), WriteControlword(6), WriteControlword(0)>>,
     <<WriteControlword(0)>>,
     <<WriteControlword(0), WriteControlword(6)>>,
     <<WriteControlword(0), WriteControlword(6), WriteControlword(7)>>,
     <<WriteControlword(0), WriteControlword(6), WriteControlword(7),
       WriteControlword(15)>>,
     <<WriteControlword(0), WriteControlword(6), WriteControlword(7),
       WriteControlword(15), WriteControlword(2)>>}

\* the controlwords of Shutdown, SwitchOn and EnableOperation
EnableSequence ==
    <<WriteControlword(6), WriteControlword(7), WriteControlword(15)>>

\* What the node sends the controller: the controlwords that lead to a drive
\* state, and the three of the enable sequence after them.
InitSeq == Started({prefix \o EnableSequence : prefix \in SeqPrefixes}, {1})

SpecSeq == InitSeq /\ [][NextScripted]_vars

\* The controller is started up in ProfileVelocity or Homing mode.
InitOp == Started({StartUp(mode, 50, 50, 100, Target) : mode \in {3, 6}}, {1})

\* the Messages written to the controller after the start-up: the
\* controlwords EnableOperation, EnableOperation with bit 4 and
\* EnableOperation with bit 8 (halt)
OpMessages == {WriteControlword(15), WriteControlword(31), WriteControlword(271)}

NextOp ==
    \/ \E message \in OpMessages : Written(message)
    \/ TryRecvOk
    \/ TryRecvErr
    \/ ChannelAccepts(MaxWaiting)
    \/ NodeTakes

SpecOp == InitOp /\ [][NextOp]_vars

\* the time the clock shows when update_operation reads it in the step: the
\* last reading of self.timer.elapsed()
Elapsed ==
    IF controller'.clock # <<>> THEN controller'.clock[Len(controller'.clock)]
    ELSE controller'.timer

----------------------------------------------------------------------------
(* The enable sequence.                                                    *)

\* the iteration that received the last controlword of the enable sequence
\* has ended
SequenceWritten ==
    /\ AfterTick
    /\ controller_rx = <<>>
    /\ iteration[1] = Some(WriteControlword(15))

\* C19: from every drive state the controller is in after an iteration,
\* writing the controlwords for Shutdown, SwitchOn and EnableOperation, one
\* per tick in that order, leaves the drive in OperationEnabled after the
\* third tick.
C19_FromEveryState ==
    SequenceWritten => controller.state = "OperationEnabled"

----------------------------------------------------------------------------
(* Profile Position.                                                       *)

\* the drive is in OperationEnabled and in ProfilePosition mode
InProfilePosition(self) ==
    self.state = "OperationEnabled" /\ self.mode_of_operation = "ProfilePosition"

\* the step completes a move: the drive stays in OperationEnabled and
\* ProfilePosition mode, the sub-state returns from Moving to
\* SetpointAcknowledge, and target_reached is set
CompletesMove ==
    /\ InProfilePosition(controller)
    /\ InProfilePosition(controller')
    /\ controller.profile_position_status = "Moving"
    /\ controller'.profile_position_status = "SetpointAcknownlegde"
    /\ controller'.target_reached

\* C21: a Profile Position move that completes while the drive stays in
\* OperationEnabled and ProfilePosition mode (target_reached set, sub-state
\* back in SetpointAcknowledge) leaves actual_position within 1 increment of
\* the commanded target, also when the target equals the position the move
\* started from.  (Every move of this specification is an absolute move to
\* Target.)
C21_MoveReachesTarget ==
    [][CompletesMove => controller'.actual_position - Target \in {-1, 0, 1}]_vars

\* bit 4 is clear in the controlword written before the latest one and set in
\* the latest one
RisingEdge(self) == self.control_oms1[1] /\ ~self.control_oms1[2]

\* the four parameters of a move have been written, the max acceleration and
\* the profile velocity are not 0 (the profile acceleration may be: the max
\* acceleration then takes its place)
ValidParameters(self) ==
    /\ self.max_acceleration # None /\ self.acceleration # None
    /\ self.profile_velocity # None /\ self.target_position # None
    /\ self.max_acceleration[1] # 0
    /\ self.profile_velocity[1] # 0

\* update_operation is called in ProfilePosition mode, in OperationEnabled
\* and in the sub-state SetpointAcknowledge
AtSetpoint(self) ==
    /\ ~self.panicked
    /\ InProfilePosition(self)
    /\ self.profile_position_status = "SetpointAcknownlegde"

\* the step in which the last send of send_messages (line 281) returns and
\* the SetpointAcknowledge arm comes to the match on the four parameters
AtMatch == Resumes("281") /\ controller.queue = <<>>

\* C23: in ProfilePosition mode, OperationEnabled and SetpointAcknowledge, a
\* tick with a rising edge of controlword bit 4 and valid parameters leads to
\* Moving with status_oms1 = true and target_reached = false; a tick without
\* a rising edge leaves the sub-state SetpointAcknowledge and starts no move
\* (the trajectory map stays as it is).
C23_RisingEdgeStartsMove ==
    [][/\ AtMatch =>
              IF RisingEdge(controller)
              THEN ValidParameters(controller) =>
                       /\ controller'.profile_position_status = "Moving"
                       /\ controller'.status_oms1
                       /\ ~controller'.target_reached
              ELSE /\ controller'.profile_position_status = "SetpointAcknownlegde"
                   /\ controller'.motion_map = controller.motion_map
       /\ (CallsUpdate /\ AtSetpoint(Mid) /\ ~RisingEdge(Mid)) =>
              /\ controller'.profile_position_status = "SetpointAcknownlegde"
              /\ controller'.motion_map = controller.motion_map]_vars

\* the last key of a trajectory map
LastKey(motion_map) == Max(DOMAIN motion_map)

\* the position a trajectory map gives for an elapsed time: the value at the
\* greatest key not above it
PositionAt(motion_map, elapsed) ==
    motion_map[Max({key \in DOMAIN motion_map : key <= elapsed})]

\* the time the clock shows when the step reads it first
FirstReading ==
    IF controller'.clock # <<>> THEN controller'.clock[1] ELSE controller'.timer

\* C25: once a move is in Moving, an iteration begun and carried on while the
\* elapsed time is not above the trajectory's last key leaves the sub-state
\* Moving and actual_position at the trajectory's position for the elapsed
\* time, whatever controlword, mode-of-operation write or other input it
\* receives.
C25_MoveRunsToEnd ==
    [][(/\ Begins
        /\ InProfilePosition(controller)
        /\ controller.profile_position_status = "Moving"
        /\ ~controller'.panicked
        /\ controller'.timer <= from_millis(LastKey(controller.motion_map))) =>
           /\ controller'.profile_position_status = "Moving"
           /\ controller'.actual_position =
                  PositionAt(controller.motion_map, as_millis(FirstReading))]_vars

----------------------------------------------------------------------------
(* The motion map.                                                         *)

\* the step in which a move starts: construct_motion_map has given the map
StartsMove ==
    /\ AtMatch
    /\ controller'.profile_position_status = "Moving"

\* C22: the map of a move with non-zero travel = target - position has first
\* key 0 and one key for each i in 0..N, N = floor(|travel| / 10); for
\* travel > 0 its values do not decrease with the key and the value at the
\* last key is within 1 increment of the target, for travel < 0 they do not
\* increase.
C22_MotionMap ==
    [][StartsMove =>
          \A travel \in {controller.target_position[1] - controller.actual_position},
             map \in {controller'.motion_map} :
              travel # 0 =>
                  /\ 0 \in DOMAIN map
                  /\ \A key \in DOMAIN map : key >= 0
                  /\ Cardinality(DOMAIN map) =
                         (IF travel < 0 THEN -travel ELSE travel) \div 10 + 1
                  /\ travel > 0 =>
                         /\ \A k1 \in DOMAIN map, k2 \in DOMAIN map :
                                k1 < k2 => map[k1] <= map[k2]
                         /\ map[Max(DOMAIN map)] - controller.target_position[1]
                                \in {-1, 0, 1}
                  /\ travel < 0 =>
                         \A k1 \in DOMAIN map, k2 \in DOMAIN map :
                             k1 < k2 => map[k1] >= map[k2]]_vars

----------------------------------------------------------------------------
(* Profile Velocity.                                                       *)

\* update_operation is called in ProfileVelocity mode and in OperationEnabled
InProfileVelocity(self) ==
    /\ ~self.panicked
    /\ self.state = "OperationEnabled"
    /\ self.mode_of_operation = "ProfileVelocity"

\* One step of the Profile Velocity sub-state machine, from the controller
\* self at the call of update_operation to the controller next after it,
\* with elapsed the time since the ramp began: Halt asserted in RampingUp or
\* Rotating leads to RampingDown, and the sub-state Rotating comes with
\* target_reached.
VelocityStepAsStated(self, next, elapsed) ==
    CASE self.profile_velocity_status = "WaitingForStart" ->
            next.profile_velocity_status =
                IF self.halt THEN "WaitingForStart" ELSE "RamingUp"
      [] self.profile_velocity_status \in {"RamingUp", "Rotating"} /\ self.halt ->
            next.profile_velocity_status = "RampingDown"
      [] self.profile_velocity_status = "RamingUp" /\ ~self.halt ->
            IF elapsed > from_millis(Ramp)
            THEN next.profile_velocity_status = "Rotating" /\ next.target_reached
            ELSE next.profile_velocity_status = "RamingUp"
      [] self.profile_velocity_status = "Rotating" /\ ~self.halt ->
            next.profile_velocity_status = "Rotating" /\ next.target_reached
      [] self.profile_velocity_status = "RampingDown" ->
            next.profile_velocity_status =
                IF elapsed > from_millis(Ramp) THEN "WaitingForStart" ELSE "RampingDown"

\* C26: in ProfileVelocity mode and OperationEnabled, with Halt clear
\* WaitingForStart goes to RampingUp and RampingUp, once more than 500 ms
\* have passed, to Rotating with target_reached set; Halt asserted in
\* RampingUp or Rotating leads to RampingDown, RampingDown after more than
\* 500 ms to WaitingForStart, and WaitingForStart stays while Halt is
\* asserted.
C26_VelocityMachine ==
    [][(CallsUpdate /\ InProfileVelocity(Mid)) =>
          VelocityStepAsStated(Mid, controller', Elapsed)]_vars

----------------------------------------------------------------------------
(* Homing.                                                                 *)

\* update_operation is called in Homing mode and in OperationEnabled
InHoming(self) ==
    /\ ~self.panicked
    /\ self.state = "OperationEnabled"
    /\ self.mode_of_operation = "Homing"

\* C27: in Homing mode and OperationEnabled, a tick in WaitingForStart enters
\* Homing if controlword bit 4 shows a rising edge and stays in
\* WaitingForStart if it does not; a tick in Homing taken more than 100 ms
\* after the start completes the run with target_reached and status_oms1 set
\* and the sub-state back in WaitingForStart, and a tick before that stays in
\* Homing.
C27_HomingMachine ==
    [][(CallsUpdate /\ InHoming(Mid)) =>
          IF Mid.home_status = "WaitingForStart"
          THEN controller'.home_status =
                   IF RisingEdge(Mid) THEN "Homing" ELSE "WaitingForStart"
          ELSE IF Elapsed > from_millis(HomingTime)
          THEN /\ controller'.home_status = "WaitingForStart"
               /\ controller'.target_reached
               /\ controller'.status_oms1
          ELSE controller'.home_status = "Homing"]_vars

\* a homing run has completed: the iteration has read the clock at more than
\* 100 ms and has sent the statusword with bits 10 and 12
C27_Witness ==
    /\ InHoming(controller)
    /\ controller.home_status = "WaitingForStart"
    /\ controller.target_reached
    /\ controller.status_oms1
    /\ controller.clock = <<from_millis(HomingTime) + Fraction>>
    /\ controller.pc = "565"

----------------------------------------------------------------------------
(* One rising edge of controlword bit 4.                                   *)

\* a homing run has completed: the drive is in Homing mode and
\* OperationEnabled, back in WaitingForStart with target_reached and
\* status_oms1 set
HomingCompleted(self) ==
    /\ InHoming(self)
    /\ self.home_status = "WaitingForStart"
    /\ self.target_reached
    /\ self.status_oms1

\* C37: one rising edge of controlword bit 4 starts at most one operation:
\* after a homing run has completed, an iteration that receives no Message
\* starts no further run and leaves target_reached and status_oms1 asserted.
C37_OneEdgeOneRun ==
    [][(Begins /\ HomingCompleted(controller) /\ Received = None) =>
          /\ controller'.home_status = "WaitingForStart"
          /\ controller'.target_reached
          /\ controller'.status_oms1]_vars

----------------------------------------------------------------------------
(* Writes of the mode of operation while the drive moves.                  *)

\* the values of the modes of ModeOfOperation
RecognizedModes == {0, 1, 3, 6}

\* a message is a write to 0x6061, mode_of_operation_display
IsDisplayWrite(message) ==
    message.set_message # None /\ message.set_message[1].index = 24673

\* the writes to 0x6061 among the Messages the controller has sent in its
\* iteration
DisplayWrites(self) == SelectSeq(self.sent, IsDisplayWrite)

\* C28: an iteration that receives a write of a recognized mode to 0x6060:
\* if the mode differs from the active one, the mode is changed, the Profile
\* Position sub-state is SetpointAcknowledge and the Profile Velocity
\* sub-state WaitingForStart, and one write to 0x6061, of the new mode, is
\* issued (and is the only one of the iteration); if it is the active mode,
\* update_operation finds both sub-states as they were and no write to
\* 0x6061 is issued.
C28_ModeChange ==
    [][/\ \A value \in RecognizedModes :
              (Begins /\ Received = Some(WriteMode(value))) =>
                  IF ModeNumber(controller.mode_of_operation) # value
                  THEN /\ ModeNumber(controller'.mode_of_operation) = value
                       /\ controller'.profile_position_status = "SetpointAcknownlegde"
                       /\ controller'.profile_velocity_status = "WaitingForStart"
                       /\ controller'.sent =
                              <<construct_set_message(24673, 0,
                                    DataValue("Integer8", value))>>
                       /\ controller'.out = Some(controller'.sent[1])
                  ELSE /\ controller'.mode_of_operation = controller.mode_of_operation
                       /\ Mid.profile_position_status =
                              controller.profile_position_status
                       /\ Mid.profile_velocity_status =
                              controller.profile_velocity_status
                       /\ DisplayWrites(controller') = <<>>
       /\ (ControllerSteps /\ ~Begins) =>
              DisplayWrites(controller') = DisplayWrites(controller)]_vars

\* the mode has been changed to ProfileVelocity while a move of
\* ProfilePosition mode was on its way: the task is in the send of the mode
\* display
C28_Witness ==
    /\ controller.pc = "491"
    /\ controller.mode_of_operation = "ProfileVelocity"
    /\ controller.state = "OperationEnabled"
    /\ controller.status_oms1
    /\ controller.actual_position = 10
    /\ controller.profile_position_status = "SetpointAcknownlegde"
    /\ Len(DisplayWrites(controller)) = 1

----------------------------------------------------------------------------
(* The drive outside OperationEnabled.                                     *)

\* what the motion sub-state machines keep besides the sub-states of Profile
\* Position and Profile Velocity: the Homing sub-state, the flags
\* target_reached, status_oms1 and status_oms2, the trajectory map and
\* actual_position
MotionFields(self) ==
    <<self.home_status, self.target_reached, self.status_oms1,
      self.status_oms2, self.motion_map, self.actual_position>>

\* the sub-states of Profile Position and Profile Velocity
SubStates(self) == <<self.profile_position_status, self.profile_velocity_status>>

\* the step in which an iteration receives a write to 0x6060 that changes the
\* mode: the task is in the send of line 491
ChangesMode ==
    /\ Begins
    /\ controller'.mode_of_operation # controller.mode_of_operation

\* C30: an iteration whose update_operation finds the drive in a state other
\* than OperationEnabled changes none of the three sub-states,
\* target_reached, status_oms1, status_oms2, the trajectory map and
\* actual_position, but for this: when it has received a write to 0x6060
\* that changes the mode, the Profile Position and Profile Velocity
\* sub-states are reset by that write, whatever the drive state, and nothing
\* else of them is changed.
C30_IdleOutsideOperationEnabled ==
    [][/\ (CallsUpdate /\ Mid.state # "OperationEnabled") =>
              /\ MotionFields(controller') = MotionFields(controller)
              /\ SubStates(controller') = SubStates(controller)
       /\ ChangesMode =>
              /\ MotionFields(controller') = MotionFields(controller)
              /\ SubStates(controller') = <<"SetpointAcknownlegde", "WaitingForStart">>]_vars

\* a move has been interrupted by DisableVoltage, and a write of the mode
\* ProfileVelocity has then reset the sub-state Moving: the iteration that
\* received it has ended with the drive in SwitchedOnDisabled and the
\* position where the move was left
C30_Witness ==
    /\ AfterTick
    /\ iteration[1] = Some(WriteMode(3))
    /\ controller.state = "SwitchedOnDisabled"
    /\ controller.mode_of_operation = "ProfileVelocity"
    /\ controller.profile_position_status = "SetpointAcknownlegde"
    /\ controller.motion_map # <<>>
    /\ controller.status_oms1

\* C30 as stated: no step of an iteration taken in a drive state other than
\* OperationEnabled changes any of them.
C30_EveryTickOutside ==
    [][(\/ CallsUpdate /\ Mid.state # "OperationEnabled"
        \/ ChangesMode /\ NextState(controller.state, controller.command)
                              # "OperationEnabled") =>
           /\ MotionFields(controller') = MotionFields(controller)
           /\ SubStates(controller') = SubStates(controller)]_vars

----------------------------------------------------------------------------
(* A move requested with invalid parameters, and the channel to the node.  *)

\* the four parameters of a move have been written
ParametersWritten(self) ==
    /\ self.max_acceleration # None /\ self.acceleration # None
    /\ self.profile_velocity # None /\ self.target_position # None

\* the profile acceleration if non-zero and else the max acceleration
EffectiveAcceleration(self) ==
    IF self.acceleration[1] # 0 THEN self.acceleration[1]
    ELSE self.max_acceleration[1]

\* max acceleration 0, effective acceleration 0 or profile velocity 0
InvalidParameters(self) ==
    \/ self.max_acceleration[1] = 0
    \/ EffectiveAcceleration(self) = 0
    \/ self.profile_velocity[1] = 0

\* a move is requested with invalid parameters: the drive is in
\* OperationEnabled, ProfilePosition mode and SetpointAcknowledge, start_travel
\* is set, and the four parameters are written and invalid
Refusing(self) ==
    /\ AtSetpoint(self)
    /\ self.start_travel
    /\ ParametersWritten(self)
    /\ InvalidParameters(self)

\* What the node sends the controller before a period in which it takes
\* nothing from the channel: a start without parameters, and the start-up and
\* a start with a max acceleration of 0, with both accelerations 0, and with a
\* profile velocity of 0.
QuietScripts ==
    {<<WriteMode(1), WriteControlword(6), WriteControlword(7),
       WriteControlword(15), WriteControlword(31)>>}
    \cup {StartUp(1, p[1], p[2], p[3], Target) \o <<WriteControlword(31)>> :
             p \in {<<0, 50, 100>>, <<0, 0, 100>>, <<50, 50, 0>>}}

InitQuiet == Started(QuietScripts, {1})

\* The listener waits in socket.recv() and receives no frame: update_controller
\* is not called, and the channel to the node, of capacity 100, is not
\* emptied.
NextQuiet ==
    \/ TryRecvOk
    \/ TryRecvErr
    \/ ChannelAccepts(ChannelCapacity)

\* an iteration of run can begin: the guard of Iterate
CanIterate == controller.pc = "top" /\ ~controller.panicked

\* The controller task is scheduled again and again (weak fairness of its
\* iterations, with their enabling condition written out): an iteration that
\* can begin does begin.
TaskScheduled ==
    []<>(~CanIterate) \/ []<><<TryRecvOk \/ TryRecvErr>>_vars

\* A send that finds room in the channel returns, and an iteration that can
\* begin does begin.
SpecQuiet ==
    /\ InitQuiet /\ [][NextQuiet]_vars
    /\ WF_vars(ChannelAccepts(ChannelCapacity))
    /\ TaskScheduled

\* C39: the controller task never blocks indefinitely: every send of a
\* Message to the node eventually completes, also in a period in which the
\* listener receives no CAN frame.
C39_SendsComplete == (controller.out # None) ~> (controller.out = None)

\* C24: a move requested with invalid parameters does not start: the step
\* that comes to the match on the parameters clears status_oms1 and leaves
\* the sub-state SetpointAcknowledge, the trajectory map and actual_position
\* as they are, and the controller keeps ticking: it begins a new iteration
\* again and again.
C24_InvalidMoveRejected ==
    /\ [][(AtMatch /\ Refusing(controller)) =>
             /\ ~controller'.status_oms1
             /\ controller'.profile_position_status = "SetpointAcknownlegde"
             /\ controller'.motion_map = controller.motion_map
             /\ controller'.actual_position = controller.actual_position
             /\ ~controller'.panicked]_vars
    /\ [](Refusing(controller) => []<>(controller.pc = "top"))

----------------------------------------------------------------------------
(* The order of the TPDO frames of a SYNC.                                 *)

\* the TPDO number of a frame sent on the COB-ID of a TPDO of this node
TpdoNumber(frame) == (frame.id - 384 - NodeId) \div 256

\* a frame is a TPDO of this node
IsTpdoFrame(frame) == \E k \in 0..7 : frame.id = TpdoId(k)

\* C32: the frames sent while one SYNC is handled are TPDO frames of this
\* node in strictly ascending TPDO number, and unless the handler panics
\* there is one for every TPDO the SYNC selects: all of them have been sent
\* when the handler of the SYNC returns, before the next frame is received.
C32_TpdosInOrder ==
    [][Receives(SyncId) =>
          /\ \A i \in 1..Len(tx') : IsTpdoFrame(tx'[i])
          /\ \A i, j \in 1..Len(tx') :
                 i < j => TpdoNumber(tx'[i]) < TpdoNumber(tx'[j])
          /\ listener' # "panicked" =>
                 {TpdoNumber(tx'[i]) : i \in 1..Len(tx')} =
                     {k \in 0..7 : TpdoSubIndices(Before.od, k) # {}}]_vars

\* a SYNC has been answered with two TPDO frames
C32_Witness ==
    /\ received >= 1
    /\ rx.id = SyncId
    /\ Len(tx) >= 2

----------------------------------------------------------------------------
(* The listener and the controller together.  The controller owns no       *)
(* reference to the Node: the listener task locks the Node once, before    *)
(* start_socket (main.rs:92-93).  What the controller writes it sends on   *)
(* controller_tx, and the Node takes it from node_rx in update_controller. *)

\* what the node sends the controller before the first SYNC: nothing, two
\* controlwords, or the start-up and the start of a move to position 10
SharedScripts ==
    {<<>>,
     <<WriteControlword(6), WriteControlword(7)>>,
     StartUp(1, 50, 50, 100, 10) \o <<WriteControlword(31)>>}

\* A SYNC is answered with TPDO 0 and TPDO 1.
InitShared == StartedWith(SeedTwoTpdos, SharedScripts, {1})

NextShared ==
    \/ RecvSync
    \/ SendReturns
    \/ UpdateController
    \/ TryRecvOk
    \/ TryRecvErr
    \/ ChannelAccepts(ChannelCapacity)

SpecShared == InitShared /\ [][NextShared]_vars

\* a SYNC is being handled: its handler is suspended in a socket.send
HandlingSync == listener = "sending" /\ rx.id = SyncId

\* C33: while a SYNC is handled no write of the controller takes effect in
\* the OD: every step between the start and the return of parse_sync leaves
\* the OD as it was, whatever the controller sends meanwhile, and the TPDO
\* frames sent when parse_sync returns are those of one OD state, the one
\* the handler returns with.
C33_GatherSeesOneOd ==
    [][/\ HandlingSync => od' = od
       /\ Receives(SyncId) =>
              \E checks \in BOOLEAN :
                  tx' = parse_sync(NodeOf(od', nmt_state', motor_controller',
                                          checks)).sent]_vars

\* a SYNC is being handled, the first TPDO frame has been sent, and a write
\* of the statusword by the controller, which differs from the statusword in
\* the OD, waits in the channel
C33_Witness ==
    /\ HandlingSync
    /\ Len(tx) = 1
    /\ \E i \in 1..Len(channel) :
           /\ IsStatuswordWrite(channel[i])
           /\ channel[i].set_message[1].value # od[26].value

----------------------------------------------------------------------------
(* NMT commands and the OD.                                                *)

\* the entries of the OD a step changes
Changed == {i \in 1..Len(od) : od'[i] # od[i]}

\* the step of update_controller that ends the turn of the loop for a frame
EndsTurn(id) == listener = "updating" /\ listener' = "running" /\ rx.id = id

\* C34: the handling of an NMT frame, Reset (0x81) and Reset-Communication
\* (0x82) included, leaves every entry of the OD and the drive state as they
\* were; the update_controller that ends the turn changes no entry but those
\* the controller has sent a write for.
C34_NmtLeavesOd ==
    [][/\ Receives(NmtId) =>
              /\ od' = Before.od
              /\ motor_controller' = Before.motor_controller
              /\ controller' = controller
       /\ EndsTurn(NmtId) =>
              /\ Len(od') = Len(od)
              /\ \A i \in Changed :
                     \E j \in 1..Len(channel) :
                         /\ channel[j].set_message # None
                         /\ channel[j].set_message[1].index = od[i].index
                         /\ channel[j].set_message[1].sub_index = od[i].sub_index
                         /\ od'[i].value = channel[j].set_message[1].value
              /\ motor_controller' = motor_controller]_vars

\* a reset addressed to this node has been handled after a value of the OD
\* had been written from the bus: the NMT state is Initializing, the value is
\* still there
C34_Witness ==
    /\ received = 2
    /\ listener = "running"
    /\ rx.id = NmtId
    /\ Len(rx.data) = 2
    /\ rx.data[1] \in {129, 130}
    /\ rx.data[2] = NodeId
    /\ nmt_state = "Initializing"
    /\ \E i \in 1..Len(od) :
           /\ od[i].index \notin {24641, 24673, 24676}
           /\ od[i].value # SeedOd[i].value

----------------------------------------------------------------------------
(* Seeding the OD from the EDS file.                                       *)

\* the largest number of sections of an EDS file of the model
MaxSections == 4

HexChars == <<"0", "1", "2", "3", "4", "5", "6", "7", "8", "9", "A", "B", "C", "D", "E", "F">>

LowerHexChars == <<"0", "1", "2", "3", "4", "5", "6", "7", "8", "9", "a", "b", "c", "d", "e", "f">>

\* char::to_digit(16): the value of a hex digit of either case, None otherwise
to_digit(c) ==
    IF \E d \in 1..16 : HexChars[d] = c \/ LowerHexChars[d] = c
    THEN Some((CHOOSE d \in 1..16 : HexChars[d] = c \/ LowerHexChars[d] = c) - 1)
    ELSE None

RECURSIVE radix16(_, _)
\* the digits of from_str_radix taken left to right onto acc, None at a
\* character that is no hex digit
radix16(chars, acc) ==
    IF chars = <<>> THEN Some(acc)
    ELSE IF to_digit(Head(chars)) = None THEN None
    ELSE radix16(Tail(chars), 16 * acc + to_digit(Head(chars))[1])

\* u16::from_str_radix(chars, 16) for max = 65535 and u8::from_str_radix for
\* max = 255: a leading "+" is accepted, the empty text, a character that is no
\* hex digit and a value above max are errors
from_str_radix(chars, max) ==
    LET digits == IF chars # <<>> /\ Head(chars) = "+" THEN Tail(chars) ELSE chars
    IN  IF digits = <<>> \/ radix16(digits, 0) = None THEN Err
        ELSE IF radix16(digits, 0)[1] > max THEN Err
        ELSE Ok(radix16(digits, 0)[1])

RECURSIVE radix16_u32(_, _, _)
\* the digits of u32::from_str_radix taken left to right onto the 16-bit
\* halves hi and lo of the value, None at a character that is no hex digit
\* and when the value no longer fits 32 bits
radix16_u32(chars, hi, lo) ==
    IF chars = <<>> THEN Some(<<hi, lo>>)
    ELSE IF to_digit(Head(chars)) = None THEN None
    ELSE IF 16 * hi + lo \div 4096 > 65535 THEN None
    ELSE radix16_u32(Tail(chars), 16 * hi + lo \div 4096,
                     16 * (lo % 4096) + to_digit(Head(chars))[1])

\* u32::from_str_radix(chars, 16), the value in its two 16-bit halves
from_str_radix_u32(chars) ==
    LET digits == IF chars # <<>> /\ Head(chars) = "+" THEN Tail(chars) ELSE chars
    IN  IF digits = <<>> \/ radix16_u32(digits, 0, 0) = None THEN Err
        ELSE Ok(radix16_u32(digits, 0, 0)[1])

RECURSIVE trim_start_matches(_)
\* str::trim_start_matches("0x"): every leading "0x" is taken off
trim_start_matches(chars) ==
    IF Len(chars) >= 2 /\ chars[1] = "0" /\ chars[2] = "x"
    THEN trim_start_matches(SubSeq(chars, 3, Len(chars)))
    ELSE chars

\* eds::parse_str_to_u8: the unwrap panics on a text that is no hex number of
\* 8 bits
parse_str_to_u8(hex_str) ==
    LET value == from_str_radix(trim_start_matches(hex_str), 255)
    IN  IF value = Err THEN Panicked ELSE value

\* eds::parse_str_to_u32: the unwrap panics on a text that is no hex number
\* of 32 bits
parse_str_to_u32(hex_str) ==
    LET value == from_str_radix_u32(trim_start_matches(hex_str))
    IN  IF value = Err THEN Panicked ELSE value

\* the character U+00E9 (e with an acute accent), which takes two bytes in
\* UTF-8; every other character of the model takes one
EAcute == "e-acute"

\* char::len_utf8
len_utf8(c) == IF c = EAcute THEN 2 ELSE 1

RECURSIVE StrLen(_)
\* str::len: the bytes of a text, given as a sequence of characters
StrLen(chars) ==
    IF chars = <<>> THEN 0 ELSE len_utf8(Head(chars)) + StrLen(Tail(chars))

\* the number of leading characters of a text that take mid bytes together,
\* -1 when mid is no character boundary of the text
CharsBefore(chars, mid) ==
    IF \E n \in 0..Len(chars) : StrLen(SubSeq(chars, 1, n)) = mid
    THEN CHOOSE n \in 0..Len(chars) : StrLen(SubSeq(chars, 1, n)) = mid
    ELSE -1

\* eds::parse_section: the (index, sub-index) of a section name, a sequence of
\* characters; split_at(4) splits after 4 bytes and panics when the name has
\* fewer or when byte 4 lies inside a character
parse_section(section) ==
    IF CharsBefore(section, 4) = -1 THEN Panicked
    ELSE LET prefix == SubSeq(section, 1, CharsBefore(section, 4))
             suffix == SubSeq(section, CharsBefore(section, 4) + 1, Len(section))
             index == from_str_radix(prefix, 65535)
             sub_index ==
                 IF Len(suffix) >= 3 /\ SubSeq(suffix, 1, 3) = <<"s", "u", "b">>
                 THEN from_str_radix(SubSeq(suffix, 4, Len(suffix)), 255)
                 ELSE Err
         IN  IF index = Err THEN Ok(<<0, 0>>)
             ELSE IF sub_index # Err THEN Ok(<<index[2], sub_index[2]>>)
             ELSE Ok(<<index[2], 0>>)

get_object_type(object_type) ==
    CASE object_type = 0 -> "Null"
      [] object_type = 2 -> "Domain"
      [] object_type = 5 -> "Deftype"
      [] object_type = 6 -> "Destruct"
      [] object_type = 7 -> "Var"
      [] object_type = 8 -> "Array"
      [] object_type = 9 -> "Record"
      [] OTHER -> "Unknown"

\* eds::get_data_type of a u32 given in its two 16-bit halves
get_data_type(data_type) ==
    CASE data_type = <<0, 1>> -> "Boolean"
      [] data_type = <<0, 2>> -> "Integer8"
      [] data_type = <<0, 3>> -> "Integer16"
      [] data_type = <<0, 4>> -> "Integer32"
      [] data_type = <<0, 5>> -> "Unsigned8"
      [] data_type = <<0, 6>> -> "Unsigned16"
      [] data_type = <<0, 7>> -> "Unsigned32"
      [] data_type = <<0, 8>> -> "Real32"
      [] OTHER -> "Unknown"

\* eds::parse_default_value for a section without a DefaultValue key: the text
\* is "0", which is no bool
parse_default_value(data_type) ==
    CASE data_type = "Boolean" -> Err
      [] data_type = "Unsigned32" -> Ok(DataValue(data_type, <<0, 0>>))
      [] OTHER -> Ok(DataValue(data_type, 0))

\* a section of an EDS file: its name and the texts of its keys ObjectType,
\* DataType and SubNumber, None for a key the section does not have
Section(name, object_type, data_type, sub_number) == [name |-> name, ObjectType |-> object_type, DataType |-> data_type, SubNumber |-> sub_number]

\* Option::unwrap_or("0") of the text of a key
unwrap_or_0(text) == IF text = None THEN <<"0">> ELSE text[1]

FileInfoName == <<"F", "i", "l", "e", "I", "n", "f", "o">>

DeviceInfoName == <<"D", "e", "v", "i", "c", "e", "I", "n", "f", "o">>

\* the text 0x000 followed by digit
DataTypeText(digit) == Some(<<"0", "x", "0", "0", "0", digit>>)

\* the sections the EDS files of the model are made of: the two sections every
\* EDS file has, the record 0x1A00 (ObjectType=0x9, SubNumber=0x2) with its
\* sub 0 and sub 1, the variable 0x6040 (ObjectType=7), a Boolean variable, a
\* section with a name of three characters, two sections with a two-byte
\* character in the name, one that ends at byte 2 and one that begins at
\* byte 4, a section with ObjectType=0x100, which is no u8, and one with
\* DataType=0x100000000, which is no u32
EdsSections ==
    { Section(FileInfoName, None, None, None),
      Section(DeviceInfoName, None, None, None),
      Section(<<"1", "A", "0", "0">>, Some(<<"0", "x", "9">>), None,
              Some(<<"0", "x", "2">>)),
      Section(<<"1", "A", "0", "0", "s", "u", "b", "0">>, Some(<<"0", "x", "7">>),
              DataTypeText("5"), None),
      Section(<<"1", "A", "0", "0", "s", "u", "b", "1">>, Some(<<"0", "x", "7">>),
              DataTypeText("7"), None),
      Section(<<"6", "0", "4", "0">>, Some(<<"7">>), DataTypeText("6"), None),
      Section(<<"2", "0", "0", "0">>, Some(<<"0", "x", "7">>), DataTypeText("1"), None),
      Section(<<"P", "D", "O">>, None, None, None),
      Section(<<EAcute, "A", "0", "0">>, None, None, None),
      Section(<<"1", "A", "0", EAcute>>, None, None, None),
      Section(<<"6", "0", "4", "1">>, Some(<<"0", "x", "1", "0", "0">>),
              DataTypeText("6"), None),
      Section(<<"6", "0", "6", "4">>, Some(<<"0", "x", "7">>),
              Some(<<"0", "x", "1", "0", "0", "0", "0", "0", "0", "0", "0">>), None) }

RECURSIVE FilesOfLength(_)
\* the files of n sections, each section at most once
FilesOfLength(n) ==
    IF n = 0 THEN {<<>>}
    ELSE UNION {{Append(file, section) :
                     section \in {s \in EdsSections :
                                      \A i \in 1..Len(file) : file[i] # s}} :
                file \in FilesOfLength(n - 1)}

\* the files of at most longest sections
EdsFiles(longest) == UNION {FilesOfLength(n) : n \in 1..longest}

RECURSIVE parse_sections(_, _)
\* the loop of eds::parse_eds over the sections (lines 223-248): one Object
\* is pushed for every section, the value of a Var is its parsed default
\* value.  Panicked when parse_section panics, when the text of ObjectType,
\* DataType or SubNumber is no hex number (parse_str_to_u8, parse_str_to_u32)
\* or when the default value of a Var does not parse.
parse_sections(sections, objects) ==
    IF sections = <<>> THEN Ok(objects)
    ELSE LET section == Head(sections)
             place == parse_section(section.name)
             object_type == parse_str_to_u8(unwrap_or_0(section.ObjectType))
             data_type == parse_str_to_u32(unwrap_or_0(section.DataType))
             sub_number == parse_str_to_u8(unwrap_or_0(section.SubNumber))
         IN  IF \/ place = Panicked
                \/ object_type = Panicked
                \/ data_type = Panicked
                \/ sub_number = Panicked
             THEN Panicked
             ELSE LET value ==
                          IF get_object_type(object_type[2]) = "Var"
                          THEN parse_default_value(get_data_type(data_type[2]))
                          ELSE Ok(DataValue("Unknown", 0))
                  IN  IF value = Err THEN Panicked
                      ELSE parse_sections(Tail(sections),
                               Append(objects,
                                   [index |-> place[2][1],
                                    sub_index |-> place[2][2],
                                    object_type |-> get_object_type(object_type[2]),
                                    data_type |-> get_data_type(data_type[2]),
                                    value |-> value[2],
                                    sub_number |-> sub_number[2]]))

\* eds::parse_eds: the file needs the sections FileInfo and DeviceInfo
\* (expect), then every section becomes an Object of the OD
parse_eds(file) ==
    IF \/ \A i \in 1..Len(file) : file[i].name # FileInfoName
       \/ \A i \in 1..Len(file) : file[i].name # DeviceInfoName
    THEN Panicked
    ELSE parse_sections(file, <<>>)

InitEds ==
    /\ od = <<>>
    /\ nmt_state = "Initializing"
    /\ motor_controller = NodeMotorController
    /\ listener = "starting"
    /\ rx = NoFrame
    /\ tx = <<>>
    /\ received = 0
    /\ controller = initialize
    /\ ticks = 0
    /\ channel = <<>>
    /\ controller_rx = <<>>
    /\ eds \in EdsFiles(MaxSections)
    /\ iteration = <<>>
    /\ turn = <<>>

\* do_main reads the EDS file and unwraps the result: the objects become the
\* OD of the node, a panic ends the program before the listener runs
Seed ==
    /\ listener = "starting"
    /\ \E result \in {parse_eds(eds)} :
           IF result = Panicked
           THEN od' = od /\ listener' = "panicked"
           ELSE od' = result[2] /\ listener' = "running"
    /\ UNCHANGED <<nmt_state, motor_controller, rx, tx, received, controller_vars, eds, turn>>

SpecEds == InitEds /\ [][Seed]_vars

\* C36: in every reachable state no two entries of the OD share the same
\* (index, sub-index) pair; the seeding creates at most one entry per pair.
C36_OneEntryPerPair ==
    listener = "running" =>
        \A i, j \in 1..Len(od) :
            i # j => od[i].index # od[j].index \/ od[i].sub_index # od[j].sub_index

====
